---------------------------- MODULE Spec2Model ----------------------------
(***************************************************************************)
(* Keylog statistics of layout_gen: the layout model (physical layout,     *)
(* layers, combos), the event resolver (convert_keylog_entries), the SFB   *)
(* detector (Sfb::new_if_sfb and the is_*_sfb predicates) and the          *)
(* statistics aggregator (KeylogStats::from_entries, top_sfbs,             *)
(* sfb_frequency_by_finger).                                               *)
(*                                                                         *)
(* Strings that the program only compares or prints are TLA+ strings.      *)
(* Strings that the program scans (layout lines, the row and col fields of *)
(* a raw record) are sequences of one-character strings.                   *)
(* Vec is a sequence, HashMap a function, HashSet a set, BTreeMap a        *)
(* sequence of [key, val] records kept sorted by the key's Ord.            *)
(* u32 counters never exceed the length of the log here, far below 2^32.   *)
(***************************************************************************)
EXTENDS Integers, Sequences, FiniteSets, TLC

VARIABLES
    input_info,    \* which InputInfo (layout model) the run was given
    keylog,        \* the raw records handed to from_entries
    pc,            \* "start", then how from_entries ended: "ok", "err", "panic"
    events,        \* entries: the logical events of convert_keylog_entries
    series,        \* Sfb::new_if_sfb of every adjacent pair of events
    keylog_stats,  \* the KeylogStats that from_entries returned
    query          \* the last query of the statistics and its result

vars == <<input_info, keylog, pc, events, series, keylog_stats, query>>

-----------------------------------------------------------------------------
(* Option<T>, and helpers *)

\* An operator's argument is evaluated when first used; a loop evaluates what
\* it accumulates at every iteration
evaluated(x) == x = x

None == [some |-> FALSE]
Some(x) == [some |-> TRUE, val |-> x]

\* Result<T>: Ok(x) and Err(msg); a panic ends the call with Panic(msg)
Ok(x) == [status |-> "ok", val |-> x]
Err(msg) == [status |-> "err", msg |-> msg]
Panic(msg) == [status |-> "panic", msg |-> msg]

Min(a, b) == IF a <= b THEN a ELSE b

RECURSIVE SumSeq(_)
SumSeq(s) == IF s = <<>> THEN 0 ELSE Head(s) + SumSeq(Tail(s))

-----------------------------------------------------------------------------
(* Characters and str::parse::<usize>() *)

DigitChars == <<"0", "1", "2", "3", "4", "5", "6", "7", "8", "9">>

IsDigit(c) == \E i \in 1..10 : DigitChars[i] = c

\* char::to_digit(10): None for a character that is no decimal digit
to_digit(c) ==
    IF IsDigit(c) THEN Some((CHOOSE i \in 1..10 : DigitChars[i] = c) - 1) ELSE None

RECURSIVE DigitsValue(_, _)
DigitsValue(s, acc) ==
    IF s = <<>> THEN acc ELSE DigitsValue(Tail(s), acc * 10 + to_digit(Head(s)).val)

\* usize::MAX of a 64-bit target, 18446744073709551615, in decimal digits
UsizeMax ==
    <<"1", "8", "4", "4", "6", "7", "4", "4", "0", "7",
      "3", "7", "0", "9", "5", "5", "1", "6", "1", "5">>

\* The greatest integer TLC holds, 2147483647, in decimal digits
IntMax == <<"2", "1", "4", "7", "4", "8", "3", "6", "4", "7">>

\* Decimal digits without their leading zeros
RECURSIVE strip_zeros(_)
strip_zeros(digits) ==
    IF Len(digits) > 1 /\ Head(digits) = "0" THEN strip_zeros(Tail(digits))
    ELSE digits

\* a < b for two digit strings of one length
RECURSIVE DigitsLess(_, _)
DigitsLess(a, b) ==
    IF a = <<>> THEN FALSE
    ELSE IF Head(a) # Head(b) THEN to_digit(Head(a)).val < to_digit(Head(b)).val
    ELSE DigitsLess(Tail(a), Tail(b))

\* The number of the digits is greater than the number of max
Above(digits, max) ==
    LET d == strip_zeros(digits)
    IN  Len(d) > Len(max) \/ (Len(d) = Len(max) /\ DigitsLess(max, d))

\* Err(ParseIntError), by its Display
ParseIntError(msg) == [some |-> FALSE, msg |-> msg]

\* A usize above the integers of TLC: its digits stand for it
Wide(digits) == [some |-> TRUE, wide |-> digits]

IsWide(v) == "wide" \in DOMAIN v

\* <usize as FromStr>::from_str: Empty for the empty string; one leading "+"
\* is dropped; the characters are read from the left, and the first that is
\* no decimal digit gives InvalidDigit, the first digit that takes the
\* number above usize::MAX gives PosOverflow.  Ok is Some(n), or Wide(digits)
\* for a usize that TLC has no integer for.
parse_usize(s) ==
    LET body == IF s # <<>> /\ Head(s) = "+" THEN Tail(s) ELSE s
        read == {i \in 0..Len(body) : \A j \in 1..i : IsDigit(body[j])}
    IN  IF s = <<>> THEN ParseIntError("cannot parse integer from empty string")
        ELSE IF body = <<>> THEN ParseIntError("invalid digit found in string")
        ELSE IF \E i \in read : i > 0 /\ Above(SubSeq(body, 1, i), UsizeMax)
        THEN ParseIntError("number too large to fit in target type")
        ELSE IF Len(body) \notin read
        THEN ParseIntError("invalid digit found in string")
        ELSE IF Above(body, IntMax) THEN Wide(strip_zeros(body))
        ELSE Some(DigitsValue(strip_zeros(body), 0))

\* char::is_whitespace, for the characters of White_Space that a string of
\* a module holds: space, tab, line feed, vertical tab, form feed and
\* carriage return
White_Space == {" ", "\t", "\n", "\r", "\f", ""}

\* str::trim_end: without the White_Space characters at the end
RECURSIVE trim_end(_)
trim_end(s) ==
    IF s # <<>> /\ s[Len(s)] \in White_Space
    THEN trim_end(SubSeq(s, 1, Len(s) - 1))
    ELSE s

FourSpaces == <<" ", " ", " ", " ">>

\* str::split("    "): non-overlapping matches, left to right
RECURSIVE split(_)
split(s) ==
    LET hits == {i \in 1..(Len(s) - 3) : SubSeq(s, i, i + 3) = FourSpaces}
    IN  IF hits = {} THEN <<s>>
        ELSE LET i == CHOOSE j \in hits : \A k \in hits : j <= k
             IN  <<SubSeq(s, 1, i - 1)>> \o split(SubSeq(s, i + 4, Len(s)))

-----------------------------------------------------------------------------
(* parse/render_opts.rs: Finger, MatrixHalf, FingerAssignment, PhysicalPos *)

Fingers == <<"Pinky", "Ring", "Middle", "Index", "Thumb">>

\* derive(PartialOrd, Ord) on enum Finger: declaration order
FingerRank(f) == CHOOSE i \in 1..5 : Fingers[i] = f

\* derive(PartialOrd, Ord) on enum MatrixHalf: Left < Right
HalfRank(h) == IF h = "Left" THEN 0 ELSE 1

Cmp(a, b) == IF a < b THEN -1 ELSE IF a > b THEN 1 ELSE 0

\* Finger::from_u32: 0..4, and a panic for anything else
from_u32(x) ==
    IF x \in 0..4 THEN Ok(Fingers[x + 1]) ELSE Panic("Finger value unknown")

\* Finger::from_char: expect() panics on a character that is no digit
from_char(c) ==
    IF ~to_digit(c).some THEN Panic("Physical layout should contain digits")
    ELSE from_u32(to_digit(c).val)

FingerAssignment(f, h) == [finger |-> f, half |-> h]

\* As FingerAssignment_cmp, without reverse() for two Right entries
FingerAssignment_cmp_forward(a, b) ==
    IF a.half = b.half
    THEN Cmp(FingerRank(a.finger), FingerRank(b.finger))
    ELSE Cmp(HalfRank(a.half), HalfRank(b.half))

\* impl Ord for FingerAssignment: -1 Less, 0 Equal, 1 Greater
FingerAssignment_cmp(a, b) ==
    IF a.half = "Left" /\ b.half = "Left"
    THEN Cmp(FingerRank(a.finger), FingerRank(b.finger))
    ELSE IF a.half = "Right" /\ b.half = "Right"
    THEN 0 - Cmp(FingerRank(a.finger), FingerRank(b.finger))
    ELSE Cmp(HalfRank(a.half), HalfRank(b.half))

\* PhysicalPos::pos
pos(p) == <<p.col, p.row>>

\* As PhysicalPos_is_sfb, without the comparison of the positions
PhysicalPos_is_sfb_by_finger(self, other) == self.finger = other.finger

\* PhysicalPos::is_sfb
PhysicalPos_is_sfb(self, other) ==
    pos(self) # pos(other) /\ self.finger = other.finger

\* One pass of the inner loop of PhysicalLayout::new for a character of the
\* effort line that is no blank: the PhysicalPos pushed, or the panic of the
\* match on split_i, of Finger::from_char or of expect() on the effort
PositionOf(effort, finger, row, split_i, col) ==
    IF split_i > 1 THEN Panic("More splits found in layout than 2")
    ELSE IF from_char(finger).status = "panic" THEN from_char(finger)
    ELSE IF ~to_digit(effort).some
    THEN Panic("Physical layout should contain digits")
    ELSE Ok([col |-> col, row |-> row,
             finger |-> FingerAssignment(from_char(finger).val,
                           IF split_i = 0 THEN "Left" ELSE "Right"),
             effort |-> to_digit(effort).val])

\* The inner loop of PhysicalLayout::new over one split segment: col counts
\* the characters of the segment, blanks included.  The result is the
\* sequence of the passes, each Ok(PhysicalPos) or a panic.
RECURSIVE SegmentPositions(_, _, _, _, _)
SegmentPositions(effort_seg, finger_seg, row, split_i, col) ==
    IF col >= Min(Len(effort_seg), Len(finger_seg)) THEN <<>>
    ELSE LET effort == effort_seg[col + 1]
             finger == finger_seg[col + 1]
             rest == SegmentPositions(effort_seg, finger_seg, row, split_i, col + 1)
         IN  IF effort = " " THEN rest
             ELSE <<PositionOf(effort, finger, row, split_i, col)>> \o rest

\* The middle loop of PhysicalLayout::new over the split segments of a row
RECURSIVE RowPositions(_, _, _, _)
RowPositions(effort_segs, finger_segs, row, split_i) ==
    IF split_i >= Min(Len(effort_segs), Len(finger_segs)) THEN <<>>
    ELSE SegmentPositions(effort_segs[split_i + 1], finger_segs[split_i + 1],
                          row, split_i, 0)
         \o RowPositions(effort_segs, finger_segs, row, split_i + 1)

\* The outer loop of PhysicalLayout::new over the rows
RECURSIVE LayoutPositions(_, _, _)
LayoutPositions(effort_layout, finger_layout, row) ==
    IF row >= Min(Len(effort_layout), Len(finger_layout)) THEN <<>>
    ELSE RowPositions(split(trim_end(effort_layout[row + 1])),
                      split(trim_end(finger_layout[row + 1])), row, 0)
         \o LayoutPositions(effort_layout, finger_layout, row + 1)

\* PhysicalLayout::new: index_to_pos, after assert_eq! on the numbers of
\* lines; the first pass that panics ends the call
PhysicalLayout_new(effort_layout, finger_layout) ==
    IF Len(effort_layout) # Len(finger_layout)
    THEN Panic("assertion failed: left == right")
    ELSE LET passes == LayoutPositions(effort_layout, finger_layout, 0)
             bad == {i \in 1..Len(passes) : passes[i].status = "panic"}
         IN  IF bad # {} THEN passes[CHOOSE i \in bad : \A j \in bad : i <= j]
             ELSE Ok([i \in 1..Len(passes) |-> passes[i].val])

\* PhysicalLayout::index_to_pos (index is zero-based): assert!(index <= len)
\* lets index = len through to the slice index, which panics
index_to_pos(physical_layout, index) ==
    IF index > Len(physical_layout) THEN Panic("assertion failed: index <= len")
    ELSE IF index = Len(physical_layout) THEN Panic("index out of bounds")
    ELSE Ok(physical_layout[index + 1])

-----------------------------------------------------------------------------
(* parse/keymap.rs: Key, Layer, Combo, Keymap *)

\* A recursion without end: the process is aborted when the stack is used
\* up, or the call never returns where the build makes a loop of the call
\* in tail position
StackOverflow == [some |-> FALSE, overflow |-> TRUE]
NoReturn == [some |-> FALSE, endless |-> TRUE]

\* KeyboardSpec::get_layout: the layout of that id or else of the alias of
\* the id, looked up the same way; seen holds the ids already tried.  The
\* result is the set of the outcomes: one outcome, but for aliases that lead
\* back to an id already tried, where the recursion has no end.
RECURSIVE get_layout_from(_, _, _)
get_layout_from(spec, id, seen) ==
    IF id \in DOMAIN spec.layouts THEN {Some(spec.layouts[id])}
    ELSE IF spec.layout_aliases.some /\ id \in DOMAIN spec.layout_aliases.val
    THEN IF id \in seen THEN {StackOverflow, NoReturn}
         ELSE get_layout_from(spec, spec.layout_aliases.val[id], seen \cup {id})
    ELSE {None}

get_layout(spec, id) == get_layout_from(spec, id, {})

\* The process aborted, and the call that does not return
Abort(msg) == [status |-> "abort", msg |-> msg]
Endless == [status |-> "endless"]

\* Layer::new once get_layout ended as layout_spec: Err without a layout of
\* def.layout_id or with another number of keys than the layout; else the
\* i-th key id of the layer definition gets the i-th matrix position of the
\* layout and the i-th physical position, and a key past the physical
\* layout panics
Layer_with(def, layout_spec, physical_layout) ==
        IF layout_spec = StackOverflow THEN Abort("stack overflow")
        ELSE IF layout_spec = NoReturn THEN Endless
        ELSE IF ~layout_spec.some THEN Err("Failed to find layout spec")
        ELSE IF Len(def.keys) # Len(layout_spec.val)
        THEN Err("Layer and spec has a mismatched number of keys")
        ELSE IF \E i \in 1..Len(def.keys) :
                    index_to_pos(physical_layout, i - 1).status = "panic"
        THEN Panic("index out of bounds")
        ELSE Ok([id |-> def.layer_id,
                 keys |-> [i \in 1..Len(def.keys) |->
                             [id |-> def.keys[i],
                              matrix_pos |-> layout_spec.val[i],
                              physical_pos |-> index_to_pos(physical_layout,
                                                            i - 1).val]]])

\* Layer::new: the set of its outcomes, one for every outcome of get_layout
Layer_new(def, spec, physical_layout) ==
    {Layer_with(def, layout_spec, physical_layout) :
        layout_spec \in get_layout(spec, def.layout_id)}

\* Layer::find_key_by_matrix: the first key of the layer at that matrix position
Layer_find_key_by_matrix(layer, p) ==
    LET hits == {i \in 1..Len(layer.keys) : layer.keys[i].matrix_pos = p}
    IN  IF hits = {} THEN None
        ELSE Some(layer.keys[CHOOSE i \in hits : \A j \in hits : i <= j])

\* is_fallback_key
is_fallback_key(id) == id \in {"_______", "xxxxxxx"}

\* Keymap::get_layer_id (i is zero-based)
get_layer_id(keymap, i) ==
    IF i < Len(keymap.layers) THEN Some(keymap.layers[i + 1].id) ELSE None

\* The panic of an out-of-bounds slice index
IndexPanic == [some |-> FALSE, panic |-> TRUE]

\* As find_key_by_matrix, taking the first key found, placeholder or not
find_key_by_matrix_any_id(keymap, curr_layer, p) ==
    IF curr_layer >= Len(keymap.layers) THEN IndexPanic
    ELSE Layer_find_key_by_matrix(keymap.layers[curr_layer + 1], p)

\* Keymap::find_key_by_matrix: scan from curr_layer down to 0; indexing
\* self.layers[curr_layer] past the end panics
RECURSIVE find_key_by_matrix(_, _, _)
find_key_by_matrix(keymap, curr_layer, p) ==
    IF curr_layer >= Len(keymap.layers) THEN IndexPanic
    ELSE LET found == Layer_find_key_by_matrix(keymap.layers[curr_layer + 1], p)
         IN  IF found.some /\ ~is_fallback_key(found.val.id) THEN found
             ELSE IF curr_layer = 0 THEN None
             ELSE find_key_by_matrix(keymap, curr_layer - 1, p)

\* The sort key of Combo::new
ComboSortKeyLeq(a, b) ==
    \/ a.physical_pos.col < b.physical_pos.col
    \/ /\ a.physical_pos.col = b.physical_pos.col
       /\ a.physical_pos.row <= b.physical_pos.row

\* slice::sort_by_key is stable: a key goes after every key not greater
RECURSIVE InsertKey(_, _)
InsertKey(sorted, k) ==
    IF sorted = <<>> THEN <<k>>
    ELSE IF ComboSortKeyLeq(Head(sorted), k)
    THEN <<Head(sorted)>> \o InsertKey(Tail(sorted), k)
    ELSE <<k>> \o sorted

RECURSIVE SortKeys(_, _)
SortKeys(keys, acc) ==
    IF keys = <<>> THEN acc ELSE SortKeys(Tail(keys), InsertKey(acc, Head(keys)))

\* Combo::new
Combo_new(id, output, keys) ==
    [id |-> id, output |-> output, keys |-> SortKeys(keys, <<>>)]

\* key_lookup.get(id) of parse_combos_from_source: a HashMap collected from
\* the base layer, so the last key with an id wins
key_lookup(base_layer, id) ==
    LET hits == {i \in 1..Len(base_layer.keys) : base_layer.keys[i].id = id}
    IN  IF hits = {} THEN None
        ELSE Some(base_layer.keys[CHOOSE i \in hits : \A j \in hits : i >= j])

\* parse_combos_from_source, from the argument lists of the COMB/SUBS lines
\* (id, output after the unquoting of SUBS, key ids): Err at the first key
\* id the base layer does not have
parse_combos_from_source(combos_def, base_layer) ==
    IF \E c \in 1..Len(combos_def) : \E k \in 1..Len(combos_def[c].keys) :
           ~key_lookup(base_layer, combos_def[c].keys[k]).some
    THEN Err("Could not find combo in base layer")
    ELSE Ok([c \in 1..Len(combos_def) |->
                Combo_new(combos_def[c].id, combos_def[c].output,
                          [k \in 1..Len(combos_def[c].keys) |->
                              key_lookup(base_layer, combos_def[c].keys[k]).val])])

\* The value of the one outcome of a call that returned Ok
TheOk(outcomes) == (CHOOSE r \in outcomes : r.status = "ok").val

\* Keymap::parse_from_source, from the layer definitions and the keyboard
\* spec already read: the set of its outcomes.  The layers are made in
\* order and the first Layer::new that does not return Ok ends the call
\* with its outcomes; &layers[0] panics without a layer; an Err of
\* parse_combos_from_source is passed on
parse_from_source(layer_defs, keyboard_spec, combos_def, physical_layout) ==
    LET made == [l \in 1..Len(layer_defs) |->
                    Layer_new(layer_defs[l], keyboard_spec, physical_layout)]
        bad == {l \in 1..Len(made) : \E r \in made[l] : r.status # "ok"}
        layers == [l \in 1..Len(made) |-> TheOk(made[l])]
    IN  IF bad # {} THEN made[CHOOSE l \in bad : \A m \in bad : l <= m]
        ELSE IF layers = <<>> THEN {Panic("index out of bounds")}
        ELSE LET combos == parse_combos_from_source(combos_def, layers[1])
             IN  IF combos.status # "ok" THEN {combos}
                 ELSE {Ok([layers |-> layers, combos |-> combos.val])}

\* Combo::contains_physical_pos
contains_physical_pos(combo, p) ==
    \E i \in 1..Len(combo.keys) : pos(combo.keys[i].physical_pos) = p

\* Combo::contains_finger
contains_finger(combo, finger) ==
    \E i \in 1..Len(combo.keys) : combo.keys[i].physical_pos.finger = finger

\* Combo::is_key_sfb
Combo_is_key_sfb(combo, key) ==
    IF contains_physical_pos(combo, pos(key.physical_pos)) THEN FALSE
    ELSE contains_finger(combo, key.physical_pos.finger)

\* Combo::get_fingers
Combo_get_fingers(combo) ==
    {combo.keys[i].physical_pos.finger : i \in 1..Len(combo.keys)}

\* Combo::get_positions
get_positions(combo) ==
    {pos(combo.keys[i].physical_pos) : i \in 1..Len(combo.keys)}

\* Combo::is_combo_sfb
Combo_is_combo_sfb(self, combo) ==
    IF get_positions(self) \cap get_positions(combo) # {} THEN FALSE
    ELSE Combo_get_fingers(self) \cap Combo_get_fingers(combo) # {}

\* Key::is_sfb
Key_is_sfb(self, other) == PhysicalPos_is_sfb(self.physical_pos, other.physical_pos)

-----------------------------------------------------------------------------
(* The reference layout and keylog of tests::test_sfb_stats (keylog/stats.rs) *)

\* RawKeylogEntry (csv_parser.rs); row and col are kept as character strings
RawKeylogEntry(keycode, row, col, highest_layer, pressed, mods, oneshot_mods, tap_count) ==
    [keycode |-> keycode, row |-> row, col |-> col, highest_layer |-> highest_layer,
     pressed |-> pressed, mods |-> mods, oneshot_mods |-> oneshot_mods,
     tap_count |-> tap_count]

RefEffortLayout == <<
    <<"5", "4", "4", "4", "6", " ", " ", " ", " ", "6", "4", "4", "4", "5">>,
    <<"2", "1", "0", "0", "5", " ", " ", " ", " ", "5", "0", "0", "1", "2">>,
    <<"6", "4", "4", "3", "6", " ", " ", " ", " ", "6", "3", "4", "4", "6">>,
    <<" ", "7", "7">>,
    <<" ", " ", " ", "8", "0", " ", " ", " ", " ", "0">>>>

RefFingerLayout == <<
    <<"1", "1", "2", "3", "3", " ", " ", " ", " ", "3", "3", "2", "1", "1">>,
    <<"0", "1", "2", "3", "3", " ", " ", " ", " ", "3", "3", "2", "1", "0">>,
    <<"0", "1", "2", "3", "3", " ", " ", " ", " ", "3", "3", "2", "1", "0">>,
    <<" ", "1", "2">>,
    <<" ", " ", " ", "4", "4", " ", " ", " ", " ", "4">>>>

RefLayerDefs == <<
    [layer_id |-> "_BASE", layout_id |-> "LAYOUT", keys |-> <<
        "SE_J", "SE_C", "SE_Y", "SE_F", "SE_P",
        "SE_X", "SE_W", "SE_O", "SE_U", "SE_DOT",
        "SE_R", "SE_S", "SE_T", "SE_H", "SE_K",
        "SE_M", "SE_N", "SE_A", "SE_I", "REPEAT",
        "SE_COMM", "SE_V", "SE_G", "SE_D", "SE_B",
        "SE_SLSH", "SE_L", "SE_LPRN", "SE_RPRN", "SE_UNDS",
        "xxxxxxx", "xxxxxxx", "FUN", "MT_SPC", "SE_E">>],
    [layer_id |-> "_NUM", layout_id |-> "LAYOUT", keys |-> <<
        "SE_J", "SE_PLUS", "SE_ASTR", "SE_EXLM", "SE_P",
        "SE_X", "_______", "AT_U", "REPEAT", "_______",
        "SE_6", "SE_4", "SE_0", "SE_2", "SE_K",
        "_______", "SE_3", "SE_1", "SE_5", "SE_7",
        "SE_COMM", "_______", "NUM_G", "SE_8", "_______",
        "SE_SLSH", "SE_9", "SE_LPRN", "SE_RPRN", "SE_UNDS",
        "_______", "_______", "_______", "_______", "_______">>]>>

RefKeyboardSpec ==
    [layouts |-> ("LAYOUT" :> <<
        <<1, 0>>, <<0, 1>>, <<0, 2>>, <<0, 3>>, <<0, 4>>,
        <<4, 0>>, <<4, 1>>, <<4, 2>>, <<4, 3>>, <<4, 4>>,
        <<2, 0>>, <<1, 1>>, <<1, 2>>, <<1, 3>>, <<1, 4>>,
        <<5, 0>>, <<5, 1>>, <<5, 2>>, <<5, 3>>, <<5, 4>>,
        <<3, 0>>, <<2, 1>>, <<2, 2>>, <<2, 3>>, <<2, 4>>,
        <<6, 0>>, <<6, 1>>, <<6, 2>>, <<6, 3>>, <<6, 4>>,
        <<3, 1>>, <<3, 2>>, <<3, 3>>, <<3, 4>>, <<7, 0>>>>),
     layout_aliases |-> None]

RefCombosDef == <<
    [id |-> "num", output |-> "NUMWORD", keys |-> <<"MT_SPC", "SE_E">>],
    [id |-> "https", output |-> "https://", keys |-> <<"MT_SPC", "SE_SLSH">>],
    [id |-> "comb_boot_r", output |-> "QK_BOOT", keys |-> <<"SE_E", "SE_L", "SE_LPRN", "SE_RPRN", "SE_UNDS">>],
    [id |-> "escape_sym", output |-> "ESC_SYM", keys |-> <<"SE_T", "SE_H">>],
    [id |-> "lt_eq", output |-> "<=", keys |-> <<"SE_F", "SE_H">>],
    [id |-> "el_str_int", output |-> "\"#{}\"SS_TAP(X_LEFT)", keys |-> <<"SE_X", "SE_W">>],
    [id |-> "coln_sym", output |-> "COLN_SYM", keys |-> <<"SE_N", "SE_A">>]>>

\* RenderOpts::new: physical_layout
RefPhysicalLayout == PhysicalLayout_new(RefEffortLayout, RefFingerLayout).val

\* The `?` of the test takes the keymap out of the Ok
RefInfo ==
    [keymap |-> TheOk(parse_from_source(RefLayerDefs, RefKeyboardSpec,
                                        RefCombosDef, RefPhysicalLayout))]

RefKeylog == <<
    RawKeylogEntry("0x0001", <<"3">>, <<"4">>, 0, 1, "0x00", "0x00", 1),
    RawKeylogEntry("COMBO", <<"N", "A">>, <<"N", "A">>, 0, 0, "0", "0", 0),
    RawKeylogEntry("0x0001", <<"1">>, <<"0">>, 0, 1, "0x00", "0x00", 1),
    RawKeylogEntry("0x0001", <<"0">>, <<"1">>, 0, 1, "0x00", "0x00", 1),
    RawKeylogEntry("0x0001", <<"1">>, <<"1">>, 0, 1, "0x00", "0x00", 1),
    RawKeylogEntry("0x0001", <<"1">>, <<"1">>, 0, 1, "0x00", "0x00", 1),
    RawKeylogEntry("0x0001", <<"1">>, <<"1">>, 0, 1, "0x00", "0x00", 1),
    RawKeylogEntry("0x0001", <<"0">>, <<"1">>, 0, 1, "0x00", "0x00", 1),
    RawKeylogEntry("0x0001", <<"1">>, <<"1">>, 0, 1, "0x00", "0x00", 1),
    RawKeylogEntry("0x0001", <<"1">>, <<"2">>, 0, 1, "0x00", "0x00", 1),
    RawKeylogEntry("COMBO", <<"N", "A">>, <<"N", "A">>, 0, 0, "0", "0", 3),
    RawKeylogEntry("COMBO", <<"N", "A">>, <<"N", "A">>, 0, 0, "0", "0", 4),
    RawKeylogEntry("0x0001", <<"6">>, <<"1">>, 0, 1, "0x00", "0x00", 1),
    RawKeylogEntry("0x0001", <<"4">>, <<"1">>, 0, 1, "0x00", "0x00", 1),
    RawKeylogEntry("COMBO", <<"N", "A">>, <<"N", "A">>, 0, 0, "0", "0", 6),
    RawKeylogEntry("COMBO", <<"N", "A">>, <<"N", "A">>, 0, 0, "0", "0", 2),
    RawKeylogEntry("COMBO", <<"N", "A">>, <<"N", "A">>, 0, 0, "0", "0", 6)>>

-----------------------------------------------------------------------------
(* keylog/stats.rs: KeylogEntry and convert_keylog_entries *)

KeylogEntry_Combo(combo) == [type |-> "Combo", combo |-> combo]

KeylogEntry_Single(key, keycode, highest_layer, pressed, tap_count) ==
    [type |-> "Single", key |-> key, keycode |-> keycode,
     highest_layer |-> highest_layer, pressed |-> pressed, tap_count |-> tap_count]

\* As convert_combo_record, with ok_or_eyre in the place of expect
convert_combo_record_or_err(entry, info) ==
    IF entry.tap_count < Len(info.keymap.combos)
    THEN [step |-> "push",
          event |-> KeylogEntry_Combo(info.keymap.combos[entry.tap_count + 1])]
    ELSE [step |-> "err", msg |-> "Combo index out of bounds"]

\* One iteration of the loop of convert_keylog_entries has one of four ends:
\* "push" an event, "skip" the record (continue), "err" (the ? operator
\* returns Err) or "panic".  This is the iteration of a COMBO record
convert_combo_record(entry, info) ==
    IF entry.tap_count < Len(info.keymap.combos)
    THEN [step |-> "push",
          event |-> KeylogEntry_Combo(info.keymap.combos[entry.tap_count + 1])]
    ELSE [step |-> "panic", msg |-> "Combo index out of bounds"]

\* row == 254 of convert_keylog_entries, for a parsed row or col
is_254(v) == ~IsWide(v) /\ v.val = 254

\* find_key_by_matrix for a position with a coordinate TLC has no integer
\* for: the matrix positions of the layouts here are integers of TLC, so no
\* layer has a key there
find_key_beyond(keymap, highest_layer) ==
    IF highest_layer >= Len(keymap.layers) THEN IndexPanic ELSE None

\* info.keymap.find_key_by_matrix(entry.highest_layer, (row, col))
key_at(keymap, highest_layer, row, col) ==
    IF IsWide(row) \/ IsWide(col) THEN find_key_beyond(keymap, highest_layer)
    ELSE find_key_by_matrix(keymap, highest_layer, <<row.val, col.val>>)

\* As convert_key_record, without the test for the (254, 254) coordinates
convert_key_record_no_sentinel(entry, info) ==
    IF entry.pressed = 0 THEN [step |-> "skip"]
    ELSE LET row == parse_usize(entry.row)
             col == parse_usize(entry.col)
         IN  IF ~row.some \/ ~col.some
             THEN [step |-> "err", msg |-> IF ~row.some THEN row.msg ELSE col.msg]
             ELSE LET key == key_at(info.keymap, entry.highest_layer, row, col)
                      highest_layer == get_layer_id(info.keymap, entry.highest_layer)
                  IN  IF key = IndexPanic
                      THEN [step |-> "panic", msg |-> "index out of bounds"]
                      ELSE IF ~key.some
                      THEN [step |-> "panic", msg |-> "Could not find key for position"]
                      ELSE IF ~highest_layer.some
                      THEN [step |-> "err", msg |-> "Layer out of bounds"]
                      ELSE [step |-> "push",
                            event |-> KeylogEntry_Single(key.val, entry.keycode,
                                          highest_layer.val, TRUE, entry.tap_count)]

\* As convert_key_record, with row and col parsed ahead of the test of pressed
convert_key_record_parse_first(entry, info) ==
    LET row == parse_usize(entry.row)
        col == parse_usize(entry.col)
    IN  IF ~row.some \/ ~col.some
        THEN [step |-> "err", msg |-> IF ~row.some THEN row.msg ELSE col.msg]
        ELSE IF entry.pressed = 0 THEN [step |-> "skip"]
        ELSE IF is_254(row) /\ is_254(col) THEN [step |-> "skip"]
        ELSE LET key == key_at(info.keymap, entry.highest_layer, row, col)
                 highest_layer == get_layer_id(info.keymap, entry.highest_layer)
             IN  IF key = IndexPanic
                 THEN [step |-> "panic", msg |-> "index out of bounds"]
                 ELSE IF ~key.some
                 THEN [step |-> "panic", msg |-> "Could not find key for position"]
                 ELSE IF ~highest_layer.some
                 THEN [step |-> "err", msg |-> "Layer out of bounds"]
                 ELSE [step |-> "push",
                       event |-> KeylogEntry_Single(key.val, entry.keycode,
                                     highest_layer.val, TRUE, entry.tap_count)]

\* The iteration of a record that is no COMBO
convert_key_record(entry, info) ==
    IF entry.pressed = 0 THEN [step |-> "skip"]
    ELSE LET row == parse_usize(entry.row)
             col == parse_usize(entry.col)
         IN  IF ~row.some \/ ~col.some
             THEN [step |-> "err", msg |-> IF ~row.some THEN row.msg ELSE col.msg]
             ELSE IF is_254(row) /\ is_254(col) THEN [step |-> "skip"]
             ELSE LET key == key_at(info.keymap, entry.highest_layer, row, col)
                      highest_layer == get_layer_id(info.keymap, entry.highest_layer)
                  IN  IF key = IndexPanic
                      THEN [step |-> "panic", msg |-> "index out of bounds"]
                      ELSE IF ~key.some
                      THEN [step |-> "panic", msg |-> "Could not find key for position"]
                      ELSE IF ~highest_layer.some
                      THEN [step |-> "err", msg |-> "Layer out of bounds"]
                      ELSE [step |-> "push",
                            event |-> KeylogEntry_Single(key.val, entry.keycode,
                                          highest_layer.val, TRUE, entry.tap_count)]

\* As convert_entry, with the test of pressed ahead of the test for COMBO
convert_entry_pressed_first(entry, info) ==
    IF entry.pressed = 0 THEN [step |-> "skip"]
    ELSE IF entry.keycode = "COMBO" THEN convert_combo_record(entry, info)
    ELSE convert_key_record(entry, info)

\* One iteration of the loop of convert_keylog_entries
convert_entry(entry, info) ==
    IF entry.keycode = "COMBO" THEN convert_combo_record(entry, info)
    ELSE convert_key_record(entry, info)

\* As convert_from, with every event put ahead of the events before it
RECURSIVE convert_from_push_front(_, _, _)
convert_from_push_front(raw_entries, info, res) ==
    IF evaluated(res) /\ raw_entries = <<>> THEN [status |-> "ok", res |-> res]
    ELSE LET r == convert_entry(Head(raw_entries), info)
         IN  CASE r.step = "push" ->
                    convert_from_push_front(Tail(raw_entries), info, <<r.event>> \o res)
               [] r.step = "skip" ->
                    convert_from_push_front(Tail(raw_entries), info, res)
               [] OTHER -> [status |-> r.step, msg |-> r.msg]

\* As convert_from, going on to the next record after a record that is an err
RECURSIVE convert_from_past_err(_, _, _)
convert_from_past_err(raw_entries, info, res) ==
    IF evaluated(res) /\ raw_entries = <<>> THEN [status |-> "ok", res |-> res]
    ELSE LET r == convert_entry(Head(raw_entries), info)
         IN  CASE r.step = "push" ->
                    convert_from_past_err(Tail(raw_entries), info, Append(res, r.event))
               [] r.step \in {"skip", "err"} ->
                    convert_from_past_err(Tail(raw_entries), info, res)
               [] OTHER -> [status |-> r.step, msg |-> r.msg]

\* convert_keylog_entries: the records in input order; the first err or panic
\* ends the run
RECURSIVE convert_from(_, _, _)
convert_from(raw_entries, info, res) ==
    IF evaluated(res) /\ raw_entries = <<>> THEN [status |-> "ok", res |-> res]
    ELSE LET r == convert_entry(Head(raw_entries), info)
         IN  CASE r.step = "push" ->
                    convert_from(Tail(raw_entries), info, Append(res, r.event))
               [] r.step = "skip" -> convert_from(Tail(raw_entries), info, res)
               [] OTHER -> [status |-> r.step, msg |-> r.msg]

convert_keylog_entries(raw_entries, info) == convert_from(raw_entries, info, <<>>)

-----------------------------------------------------------------------------
(* keylog/stats.rs: the SFB predicates of KeylogEntry *)

\* KeylogEntry::is_key_sfb
KeylogEntry_is_key_sfb(self, key) ==
    IF self.type = "Combo" THEN Combo_is_key_sfb(self.combo, key)
    ELSE Key_is_sfb(key, self.key)

\* As KeylogEntry::is_combo_sfb, with the finger alone tested for a single key
KeylogEntry_is_combo_sfb_finger_only(self, combo) ==
    IF self.type = "Combo" THEN Combo_is_combo_sfb(self.combo, combo)
    ELSE contains_finger(combo, self.key.physical_pos.finger)

\* KeylogEntry::is_combo_sfb
KeylogEntry_is_combo_sfb(self, combo) ==
    IF self.type = "Combo" THEN Combo_is_combo_sfb(self.combo, combo)
    ELSE Combo_is_key_sfb(combo, self.key)

\* KeylogEntry::is_entry_sfb
is_entry_sfb(self, other) ==
    IF self.type = "Combo" THEN KeylogEntry_is_combo_sfb(other, self.combo)
    ELSE KeylogEntry_is_key_sfb(other, self.key)

-----------------------------------------------------------------------------
(* keylog/mod.rs: the SFB predicates of the KeylogEntry of that file *)

\* KeylogEntry::is_key_sfb of keylog/mod.rs
mod_KeylogEntry_is_key_sfb(self, key) ==
    IF self.type = "Combo" THEN Combo_is_key_sfb(self.combo, key)
    ELSE Key_is_sfb(key, self.key)

\* KeylogEntry::is_combo_sfb of keylog/mod.rs: the pattern Combo(combo) binds
\* the name of the parameter anew, so the arm reads the combo of self twice
mod_KeylogEntry_is_combo_sfb(self, combo) ==
    IF self.type = "Combo" THEN Combo_is_combo_sfb(self.combo, self.combo)
    ELSE Combo_is_key_sfb(combo, self.key)

\* KeylogEntry::is_entry_sfb of keylog/mod.rs
mod_is_entry_sfb(self, other) ==
    IF self.type = "Combo" THEN mod_KeylogEntry_is_combo_sfb(other, self.combo)
    ELSE mod_KeylogEntry_is_key_sfb(other, self.key)

-----------------------------------------------------------------------------
(* keylog/stats.rs: Sfb *)

\* As new_if_sfb, with the fingers of the first combo alone for two combos
new_if_sfb_first_fingers(current, next) ==
    IF ~is_entry_sfb(current, next) THEN None
    ELSE IF current.type = "Combo" /\ next.type = "Combo"
    THEN Some([type |-> "Combo",
               first_keys |-> current.combo.keys,
               second_keys |-> next.combo.keys,
               fingers |-> Combo_get_fingers(current.combo)])
    ELSE IF current.type = "Combo" /\ next.type = "Single"
    THEN Some([type |-> "Combo",
               first_keys |-> current.combo.keys,
               second_keys |-> <<next.key>>,
               fingers |-> Combo_get_fingers(current.combo)
                              \cup {next.key.physical_pos.finger}])
    ELSE IF current.type = "Single" /\ next.type = "Combo"
    THEN Some([type |-> "Combo",
               first_keys |-> <<current.key>>,
               second_keys |-> next.combo.keys,
               fingers |-> Combo_get_fingers(next.combo)
                              \cup {current.key.physical_pos.finger}])
    ELSE Some([type |-> "Single",
               first_key |-> current.key,
               second_key |-> next.key,
               finger |-> current.key.physical_pos.finger])

\* Sfb::new_if_sfb
new_if_sfb(current, next) ==
    IF ~is_entry_sfb(current, next) THEN None
    ELSE IF current.type = "Combo" /\ next.type = "Combo"
    THEN Some([type |-> "Combo",
               first_keys |-> current.combo.keys,
               second_keys |-> next.combo.keys,
               fingers |-> Combo_get_fingers(current.combo)
                              \cup Combo_get_fingers(next.combo)])
    ELSE IF current.type = "Combo" /\ next.type = "Single"
    THEN Some([type |-> "Combo",
               first_keys |-> current.combo.keys,
               second_keys |-> <<next.key>>,
               fingers |-> Combo_get_fingers(current.combo)
                              \cup {next.key.physical_pos.finger}])
    ELSE IF current.type = "Single" /\ next.type = "Combo"
    THEN Some([type |-> "Combo",
               first_keys |-> <<current.key>>,
               second_keys |-> next.combo.keys,
               fingers |-> Combo_get_fingers(next.combo)
                              \cup {current.key.physical_pos.finger}])
    ELSE Some([type |-> "Single",
               first_key |-> current.key,
               second_key |-> next.key,
               finger |-> current.key.physical_pos.finger])

\* Sfb::has_combo
has_combo(sfb) == sfb.type = "Combo"

\* [&str]::join(",")
RECURSIVE join(_)
join(keys) ==
    IF keys = <<>> THEN ""
    ELSE IF Len(keys) = 1 THEN keys[1].id
    ELSE keys[1].id \o "," \o join(Tail(keys))

\* Sfb::first_ids_to_string
first_ids_to_string(sfb) ==
    IF sfb.type = "Combo" THEN join(sfb.first_keys) ELSE sfb.first_key.id

\* Sfb::second_ids_to_string
second_ids_to_string(sfb) ==
    IF sfb.type = "Combo" THEN join(sfb.second_keys) ELSE sfb.second_key.id

\* The widths of the format string of Sfb::id
FirstWidth == 22
SecondWidth == 20

\* format!("{:>w}"): pad with spaces on the left up to w characters
RECURSIVE pad_left(_, _)
pad_left(str, w) == IF Len(str) >= w THEN str ELSE pad_left(" " \o str, w)

\* format!("{:<w}"): pad with spaces on the right up to w characters
RECURSIVE pad_right(_, _)
pad_right(str, w) == IF Len(str) >= w THEN str ELSE pad_right(str \o " ", w)

\* As id, from the fingers of the Sfb instead of its keys
id_of_fingers(sfb) ==
    IF sfb.type = "Combo" THEN pad_left("combo", FirstWidth)
    ELSE pad_left(sfb.finger.finger, FirstWidth) \o "    "
             \o pad_right(sfb.finger.half, SecondWidth)

\* Sfb::id
id(sfb) ==
    pad_left(first_ids_to_string(sfb), FirstWidth) \o "    "
        \o pad_right(second_ids_to_string(sfb), SecondWidth)

\* Sfb::get_fingers
Sfb_get_fingers(sfb) == IF sfb.type = "Combo" THEN sfb.fingers ELSE {sfb.finger}

-----------------------------------------------------------------------------
(* Maps *)

\* As hash_add1, without and_modify
hash_or_insert1(map, k) ==
    IF k \in DOMAIN map THEN map ELSE map @@ (k :> 1)

\* HashMap entry(k).and_modify(|x| *x += 1).or_insert(1)
hash_add1(map, k) ==
    IF k \in DOMAIN map THEN [map EXCEPT ![k] = @ + 1] ELSE map @@ (k :> 1)

EmptyMap == <<>>

\* BTreeMap<FingerAssignment, _>: where key k is, or 0
btree_index(map, k) ==
    IF \E i \in 1..Len(map) : map[i].key = k
    THEN CHOOSE i \in 1..Len(map) : map[i].key = k
    ELSE 0

\* BTreeMap insert of a new key: after every smaller key (impl Ord)
btree_insert(map, k, v) ==
    LET n == Cardinality({i \in 1..Len(map) : FingerAssignment_cmp(map[i].key, k) < 0})
    IN  SubSeq(map, 1, n) \o <<[key |-> k, val |-> v]>> \o SubSeq(map, n + 1, Len(map))

\* As btree_add1, without and_modify
btree_or_insert1(map, k) ==
    IF btree_index(map, k) > 0 THEN map ELSE btree_insert(map, k, 1)

\* BTreeMap entry(k).and_modify(|x| *x += 1).or_insert(1)
btree_add1(map, k) ==
    LET i == btree_index(map, k)
    IN  IF i > 0 THEN [map EXCEPT ![i].val = @ + 1] ELSE btree_insert(map, k, 1)

\* A set as a sequence, in an order that does not matter to the caller
RECURSIVE SetToSeq(_)
SetToSeq(S) ==
    IF S = {} THEN <<>>
    ELSE LET x == CHOOSE y \in S : TRUE IN <<x>> \o SetToSeq(S \ {x})

\* Every order in which a HashMap with these keys can be iterated
RECURSIVE Orders(_)
Orders(S) ==
    IF S = {} THEN {<<>>}
    ELSE UNION {{<<x>> \o rest : rest \in Orders(S \ {x})} : x \in S}

Reverse(s) == [i \in 1..Len(s) |-> s[Len(s) + 1 - i]]

-----------------------------------------------------------------------------
(* keylog/stats.rs: KeylogStats::from_entries *)

\* As count_keys, for the first key alone
count_keys_once(keys, finger_frequency) ==
    IF keys = <<>> THEN finger_frequency
    ELSE btree_add1(finger_frequency, Head(keys).physical_pos.finger)

\* The finger_frequency updates of one Combo event: one per key
RECURSIVE count_keys(_, _)
count_keys(keys, finger_frequency) ==
    IF evaluated(finger_frequency) /\ keys = <<>> THEN finger_frequency
    ELSE count_keys(Tail(keys),
                    btree_add1(finger_frequency, Head(keys).physical_pos.finger))

\* The first loop of from_entries: output and finger frequencies
RECURSIVE count_entries(_, _, _)
count_entries(entries, frequency, finger_frequency) ==
    IF evaluated(frequency) /\ evaluated(finger_frequency) /\ entries = <<>>
    THEN [frequency |-> frequency, finger_frequency |-> finger_frequency]
    ELSE LET entry == Head(entries)
         IN  IF entry.type = "Combo"
             THEN count_entries(Tail(entries),
                                hash_add1(frequency, entry.combo.output),
                                count_keys(entry.combo.keys, finger_frequency))
             ELSE count_entries(Tail(entries),
                                hash_add1(frequency, entry.key.id),
                                btree_add1(finger_frequency,
                                           entry.key.physical_pos.finger))

\* As sum_presses, whatever the half
sum_presses_any_half(finger_frequency, halves) ==
    SumSeq([i \in DOMAIN finger_frequency |-> finger_frequency[i].val])

\* The second loop of from_entries: the totals over finger_frequency
RECURSIVE sum_presses(_, _)
sum_presses(finger_frequency, halves) ==
    IF finger_frequency = <<>> THEN 0
    ELSE (IF Head(finger_frequency).key.half \in halves
          THEN Head(finger_frequency).val ELSE 0)
         + sum_presses(Tail(finger_frequency), halves)

\* As zip_new_if_sfb, without the skip(1)
zip_without_skip(entries) ==
    [i \in 1..Len(entries) |-> new_if_sfb(entries[i], entries[i])]

\* As zip_new_if_sfb, with the last entry paired with the first as well
zip_new_if_sfb_cyclic(entries) ==
    [i \in 1..Len(entries) |->
        new_if_sfb(entries[i], entries[(i % Len(entries)) + 1])]

\* entries.iter().zip(entries.iter().skip(1)).map(new_if_sfb): one Option<Sfb>
\* per adjacent pair (filter_map keeps the Some ones)
zip_new_if_sfb(entries) ==
    IF Len(entries) < 2 THEN <<>>
    ELSE [i \in 1..(Len(entries) - 1) |-> new_if_sfb(entries[i], entries[i + 1])]

RECURSIVE filter_map(_)
filter_map(options) ==
    IF options = <<>> THEN <<>>
    ELSE IF Head(options).some THEN <<Head(options).val>> \o filter_map(Tail(options))
    ELSE filter_map(Tail(options))

\* As count_sfbs, without and_modify: an id seen again is counted no further
RECURSIVE count_sfbs_or_insert(_, _)
count_sfbs_or_insert(sfb_series, sfbs_by_id) ==
    IF evaluated(sfbs_by_id) /\ sfb_series = <<>> THEN sfbs_by_id
    ELSE LET sfb == Head(sfb_series)
             key == id(sfb)
         IN  count_sfbs_or_insert(Tail(sfb_series),
                 IF key \in DOMAIN sfbs_by_id
                 THEN sfbs_by_id
                 ELSE sfbs_by_id @@ (key :> [presses |-> 1, sfb |-> sfb]))

\* The loop over sfb_series: count per id, keep the first Sfb of each id
RECURSIVE count_sfbs(_, _)
count_sfbs(sfb_series, sfbs_by_id) ==
    IF evaluated(sfbs_by_id) /\ sfb_series = <<>> THEN sfbs_by_id
    ELSE LET sfb == Head(sfb_series)
             key == id(sfb)
         IN  count_sfbs(Tail(sfb_series),
                 IF key \in DOMAIN sfbs_by_id
                 THEN [sfbs_by_id EXCEPT ![key].presses = @ + 1]
                 ELSE sfbs_by_id @@ (key :> [presses |-> 1, sfb |-> sfb]))

\* As index_fingers, for the first finger of get_fingers alone
index_fingers_first(fingers, sfb, sfbs_by_finger) ==
    IF fingers = <<>> THEN sfbs_by_finger
    ELSE LET finger == Head(fingers)
             key == id(sfb.sfb)
             i == btree_index(sfbs_by_finger, finger)
             fresh == [presses |-> sfb.presses, sfb |-> sfb.sfb]
             x == sfbs_by_finger[i].val
         IN  IF i > 0
             THEN [sfbs_by_finger EXCEPT ![i].val =
                      IF key \in DOMAIN x
                      THEN [x EXCEPT ![key].presses = @ + sfb.presses]
                      ELSE x @@ (key :> fresh)]
             ELSE btree_insert(sfbs_by_finger, finger, (key :> fresh))

\* The inner loop over sfb.sfb.get_fingers(): sfbs_by_finger.entry(finger)
RECURSIVE index_fingers(_, _, _)
index_fingers(fingers, sfb, sfbs_by_finger) ==
    IF evaluated(sfbs_by_finger) /\ fingers = <<>> THEN sfbs_by_finger
    ELSE LET finger == Head(fingers)
             key == id(sfb.sfb)
             i == btree_index(sfbs_by_finger, finger)
             fresh == [presses |-> sfb.presses, sfb |-> sfb.sfb]
             x == sfbs_by_finger[i].val
         IN  index_fingers(Tail(fingers), sfb,
                 IF i > 0
                 THEN [sfbs_by_finger EXCEPT ![i].val =
                          IF key \in DOMAIN x
                          THEN [x EXCEPT ![key].presses = @ + sfb.presses]
                          ELSE x @@ (key :> fresh)]
                 ELSE btree_insert(sfbs_by_finger, finger, (key :> fresh)))

\* The loop over sfbs_by_id.iter(), in the iteration order of the HashMap
RECURSIVE index_sfbs(_, _, _, _)
index_sfbs(order, sfbs_by_id, sfbs, sfbs_by_finger) ==
    IF evaluated(sfbs) /\ evaluated(sfbs_by_finger) /\ order = <<>>
    THEN [sfbs |-> sfbs, sfbs_by_finger |-> sfbs_by_finger]
    ELSE LET sfb == sfbs_by_id[Head(order)]
         IN  index_sfbs(Tail(order), sfbs_by_id, Append(sfbs, sfb),
                        index_fingers(SetToSeq(Sfb_get_fingers(sfb.sfb)), sfb,
                                      sfbs_by_finger))

\* impl Ord for SfbStats: by presses alone
SfbStats_cmp(self, other) == Cmp(self.presses, other.presses)

\* As sort, leaving the vector as the loop over sfbs_by_id filled it
sort_skipped(sfbs, acc) == acc \o sfbs

\* sfbs.sort(): stable, so equal elements keep their order
RECURSIVE sort_insert(_, _)
sort_insert(sorted, x) ==
    IF sorted = <<>> THEN <<x>>
    ELSE IF SfbStats_cmp(Head(sorted), x) <= 0
    THEN <<Head(sorted)>> \o sort_insert(Tail(sorted), x)
    ELSE <<x>> \o sorted

RECURSIVE sort(_, _)
sort(sfbs, acc) ==
    IF evaluated(acc) /\ sfbs = <<>> THEN acc
    ELSE sort(Tail(sfbs), sort_insert(acc, Head(sfbs)))

\* The KeylogStats value that from_entries returns
KeylogStats(entries, options, sfb_series, counts, sfbs_by_id, index) ==
    [status |-> "ok",
     entries |-> entries,
     options |-> options,
     stats |->
       [sfbs |-> sort(index.sfbs, <<>>),
        sfbs_by_id |-> sfbs_by_id,
        sfbs_by_finger |-> index.sfbs_by_finger,
        total_events |-> Len(entries),
        total_sfb_events |-> Len(sfb_series),
        output_frequency |-> counts.frequency,
        finger_frequency |-> counts.finger_frequency,
        total_key_presses |-> sum_presses(counts.finger_frequency, {"Left", "Right"}),
        total_key_presses_left |-> sum_presses(counts.finger_frequency, {"Left"}),
        total_key_presses_right |-> sum_presses(counts.finger_frequency, {"Right"})]]

\* from_entries from the loop over sfbs_by_id.iter() on: a HashMap iterates
\* in an order the program does not control, so every order is an outcome
from_entries_index(entries, options, sfb_series, counts, sfbs_by_id) ==
    {KeylogStats(entries, options, sfb_series, counts, sfbs_by_id,
                 index_sfbs(order, sfbs_by_id, <<>>, <<>>)) :
        order \in Orders(DOMAIN sfbs_by_id)}

\* from_entries from the sfb_series on
from_entries_series(entries, options, sfb_series) ==
    from_entries_index(entries, options, sfb_series,
                       count_entries(entries, EmptyMap, <<>>),
                       count_sfbs(sfb_series, EmptyMap))

\* from_entries after convert_keylog_entries(&raw_entries, info)?
from_entries_converted(conv, options) ==
    IF conv.status # "ok" THEN {conv}
    ELSE from_entries_series(conv.res, options, filter_map(options))

\* KeylogStats::from_entries: the set of its possible outcomes, each
\* [status |-> "ok", stats |-> ...] (with the entries and the per-pair
\* new_if_sfb results it went through), "err" or "panic"
from_entries(info, raw_entries) ==
    from_entries_converted(
        convert_keylog_entries(raw_entries, info),
        zip_new_if_sfb(convert_keylog_entries(raw_entries, info).res))

\* As combo_filter, keeping everything
combo_filter_keeps_all(x, include_combos) == TRUE

\* The filter of top_sfbs and of sfb_frequency_by_finger
combo_filter(x, include_combos) ==
    IF ~include_combos THEN ~has_combo(x.sfb) ELSE TRUE

RECURSIVE filter_sfbs(_, _)
filter_sfbs(sfbs, include_combos) ==
    IF sfbs = <<>> THEN <<>>
    ELSE IF combo_filter(Head(sfbs), include_combos)
    THEN <<Head(sfbs)>> \o filter_sfbs(Tail(sfbs), include_combos)
    ELSE filter_sfbs(Tail(sfbs), include_combos)

\* Iterator::take
take(s, count) == SubSeq(s, 1, Min(count, Len(s)))

\* As top_sfbs, without the rev()
top_sfbs_ascending(stats, count, include_combos) ==
    take(filter_sfbs(stats.sfbs, include_combos), count)

\* KeylogStats::top_sfbs
top_sfbs(stats, count, include_combos) ==
    take(filter_sfbs(Reverse(stats.sfbs), include_combos), count)

\* The sum over sfbs_by_id.values() of one finger in sfb_frequency_by_finger
RECURSIVE sum_filtered(_, _, _)
sum_filtered(map, ids, include_combos) ==
    IF ids = <<>> THEN 0
    ELSE (IF combo_filter(map[Head(ids)], include_combos)
          THEN map[Head(ids)].presses ELSE 0)
         + sum_filtered(map, Tail(ids), include_combos)

\* An entry with a count other than 0
counted(entry) == entry.val # 0

\* As sfb_frequency_by_finger, without the entries that count 0
sfb_frequency_by_finger_counted(stats, include_combos) ==
    SelectSeq([i \in 1..Len(stats.sfbs_by_finger) |->
                  [key |-> stats.sfbs_by_finger[i].key,
                   val |-> sum_filtered(stats.sfbs_by_finger[i].val,
                                        SetToSeq(DOMAIN stats.sfbs_by_finger[i].val),
                                        include_combos)]],
              counted)

\* KeylogStats::sfb_frequency_by_finger
sfb_frequency_by_finger(stats, include_combos) ==
    [i \in 1..Len(stats.sfbs_by_finger) |->
        [key |-> stats.sfbs_by_finger[i].key,
         val |-> sum_filtered(stats.sfbs_by_finger[i].val,
                              SetToSeq(DOMAIN stats.sfbs_by_finger[i].val),
                              include_combos)]]

-----------------------------------------------------------------------------
(* A small split layout: two rows, two layers, three combos.  Columns are  *)
(* counted per half, as PhysicalLayout::new counts them.                   *)

MiniEffortLayout == <<
    <<"1", "1", " ", " ", " ", " ", "1", "1">>,
    <<"1", " ", " ", " ", " ", "1">>>>

MiniFingerLayout == <<
    <<"0", "0", " ", " ", " ", " ", "3", "3">>,
    <<"0", " ", " ", " ", " ", "3">>>>

MiniLayerDefs == <<
    [layer_id |-> "_BASE", layout_id |-> "LAYOUT",
     keys |-> <<"A", "B", "C", "E", "D", "xxxxxxx">>],
    [layer_id |-> "_NUM", layout_id |-> "LAYOUT_split",
     keys |-> <<"_______", "A", "_______", "F", "B", "_______">>]>>

\* One layout, and an alias for it
MiniKeyboardSpec ==
    [layouts |-> ("LAYOUT" :>
                     <<<<0, 0>>, <<0, 1>>, <<1, 0>>, <<1, 1>>, <<2, 0>>, <<2, 1>>>>),
     layout_aliases |-> Some("LAYOUT_split" :> "LAYOUT")]

MiniCombosDef == <<
    [id |-> "x", output |-> "OX", keys |-> <<"B", "C">>],
    [id |-> "y", output |-> "OY", keys |-> <<"D">>],
    [id |-> "z", output |-> "OZ", keys |-> <<"A", "E">>]>>

MiniPhysicalLayout == PhysicalLayout_new(MiniEffortLayout, MiniFingerLayout).val

MiniInfo ==
    [keymap |-> TheOk(parse_from_source(MiniLayerDefs, MiniKeyboardSpec,
                                        MiniCombosDef, MiniPhysicalLayout))]

\* InputInfo by name
InputInfo(name) == IF name = "ref" THEN RefInfo ELSE MiniInfo

-----------------------------------------------------------------------------
(* Raw records *)

Press(row, col, highest_layer) ==
    RawKeylogEntry("0x0001", row, col, highest_layer, 1, "0x00", "0x00", 1)

Release(row, col, highest_layer) ==
    RawKeylogEntry("0x0001", row, col, highest_layer, 0, "0x00", "0x00", 1)

ComboRecord(pressed, index) ==
    RawKeylogEntry("COMBO", <<"N", "A">>, <<"N", "A">>, 0, pressed, "0", "0", index)

\* Records of the small layout that resolve: two keys of one finger, a key id
\* that a second layer repeats elsewhere on that finger, a key of the other
\* half and the three combos
GoodRecords ==
    {Press(<<"0">>, <<"0">>, 0), Press(<<"0">>, <<"1">>, 0), Press(<<"0">>, <<"1">>, 1),
     Press(<<"1">>, <<"0">>, 0),
     ComboRecord(0, 0), ComboRecord(0, 1), ComboRecord(0, 2)}

\* Records for the queries: keys of both halves and two combos, so that
\* identities of both variants come with different counts
QueryRecords ==
    {Press(<<"0">>, <<"0">>, 0), Press(<<"0">>, <<"1">>, 0), Press(<<"1">>, <<"0">>, 0),
     ComboRecord(0, 0), ComboRecord(0, 1)}

\* Records of every kind convert_keylog_entries tells apart: presses,
\* releases, the (254, 254) sentinel, combos pressed and released, and the
\* records it fails on (coordinates that are no number, a layer or a combo
\* the layout does not have, a position no layer gives a key), on the base
\* layer and on the layer above it
AnyRecords ==
    {Press(<<"0">>, <<"0">>, 0), Press(<<"0">>, <<"0">>, 1), Press(<<"0">>, <<"1">>, 0),
     Release(<<"0">>, <<"0">>, 0),
     Press(<<"2", "5", "4">>, <<"2", "5", "4">>, 0),
     ComboRecord(0, 0), ComboRecord(1, 1),
     Press(<<"N", "A">>, <<"N", "A">>, 0), Press(<<"0">>, <<"N", "A">>, 0),
     Press(<<"0">>, <<"0">>, 2),
     Press(<<"2">>, <<"1">>, 0), Press(<<"2">>, <<"1">>, 1),
     ComboRecord(1, 3)}

\* The longest log of SpecResolve
MaxRaw == 4

\* The longest log of Spec and of SpecQuery
MaxLen == 4

\* Every sequence over S of at most n elements
SeqsUpTo(S, n) == UNION {[1..k -> S] : k \in 0..n}

\* The reference keylog, cut after any record
RefPrefixes == {SubSeq(RefKeylog, 1, n) : n \in 0..Len(RefKeylog)}

\* The largest count asked of top_sfbs
MaxCount == 2

-----------------------------------------------------------------------------
(* The run: from_entries once, then any number of queries.  Spec and       *)
(* SpecResolve stop at the statistics; SpecQuery and SpecRef go on to the  *)
(* queries.  A keylog is chosen only while the run has not started.        *)

NoRun(name) ==
    /\ input_info = name
    /\ keylog = <<>>
    /\ pc = "start"
    /\ events = <<>>
    /\ series = <<>>
    /\ keylog_stats = None
    /\ query = None

Init == NoRun("mini")

InitRef == NoRun("ref")

\* The state after from_entries(info, raw_entries) returned r
Returned(raw_entries, r) ==
    /\ keylog' = raw_entries
    /\ pc' = r.status
    /\ events' = IF r.status = "ok" THEN r.entries ELSE <<>>
    /\ series' = IF r.status = "ok" THEN r.options ELSE <<>>
    /\ keylog_stats' = IF r.status = "ok" THEN Some(r.stats) ELSE None
    /\ UNCHANGED <<input_info, query>>

\* KeylogStats::from_entries(info, raw_entries)
FromEntries(raw_entries) ==
    /\ pc = "start"
    /\ \E r \in from_entries(InputInfo(input_info), raw_entries) :
         Returned(raw_entries, r)

\* stats.top_sfbs(count, include_combos)
TopSfbs ==
    /\ pc = "ok"
    /\ \E count \in 0..MaxCount, include_combos \in BOOLEAN :
         query' = Some([fn |-> "top_sfbs", count |-> count,
                        include_combos |-> include_combos,
                        result |-> top_sfbs(keylog_stats.val, count, include_combos)])
    /\ UNCHANGED <<input_info, keylog, pc, events, series, keylog_stats>>

\* stats.sfb_frequency_by_finger(include_combos)
SfbFrequencyByFinger ==
    /\ pc = "ok"
    /\ \E include_combos \in BOOLEAN :
         query' = Some([fn |-> "sfb_frequency_by_finger",
                        include_combos |-> include_combos,
                        result |-> sfb_frequency_by_finger(keylog_stats.val,
                                                           include_combos)])
    /\ UNCHANGED <<input_info, keylog, pc, events, series, keylog_stats>>

\* The keylogs of Spec
GoodLogs == SeqsUpTo(GoodRecords, MaxLen)

Next == pc = "start" /\ \E raw_entries \in GoodLogs : FromEntries(raw_entries)

Spec == Init /\ [][Next]_vars

\* The keylogs of SpecQuery
QueryLogs == SeqsUpTo(QueryRecords, MaxLen)

NextQuery ==
    \/ pc = "start" /\ \E raw_entries \in QueryLogs : FromEntries(raw_entries)
    \/ TopSfbs
    \/ SfbFrequencyByFinger

SpecQuery == Init /\ [][NextQuery]_vars

NextRef ==
    \/ pc = "start" /\ \E raw_entries \in RefPrefixes : FromEntries(raw_entries)
    \/ TopSfbs
    \/ SfbFrequencyByFinger

SpecRef == InitRef /\ [][NextRef]_vars

\* The keylogs of SpecResolve
AnyLogs == SeqsUpTo(AnyRecords, MaxRaw)

NextResolve ==
    pc = "start" /\ \E raw_entries \in AnyLogs : FromEntries(raw_entries)

SpecResolve == Init /\ [][NextResolve]_vars

\* The largest layer index, row and column asked of find_key_by_matrix
MaxLayer == 2

MaxRow == 7

MaxCol == 4

\* keymap.find_key_by_matrix(highest_layer, (row, col))
FindKeyByMatrix ==
    /\ pc = "start"
    /\ \E highest_layer \in 0..MaxLayer, row \in 0..MaxRow, col \in 0..MaxCol :
         query' = Some([fn |-> "find_key_by_matrix",
                        highest_layer |-> highest_layer, pos |-> <<row, col>>,
                        result |-> find_key_by_matrix(InputInfo(input_info).keymap,
                                                      highest_layer, <<row, col>>)])
    /\ UNCHANGED <<input_info, keylog, pc, events, series, keylog_stats>>

\* Presses on the layer above the base layer, where the small layout has
\* placeholders and keys, and a press on the base layer
FindRecords ==
    {Press(<<"0">>, <<"0">>, 1), Press(<<"0">>, <<"1">>, 1), Press(<<"1">>, <<"0">>, 1),
     Press(<<"1">>, <<"1">>, 1), Press(<<"2">>, <<"0">>, 1), Press(<<"0">>, <<"0">>, 0)}

\* The longest log of SpecFind
MaxFind == 2

\* The keylogs of SpecFind
FindLogs == SeqsUpTo(FindRecords, MaxFind)

InitFind == \E name \in {"mini", "ref"} : NoRun(name)

NextFind ==
    \/ pc = "start" /\ \E raw_entries \in FindLogs : FromEntries(raw_entries)
    \/ FindKeyByMatrix

SpecFind == InitFind /\ [][NextFind]_vars

\* a.is_entry_sfb(&b) and b.is_entry_sfb(&a) for two events of the run, by
\* the KeylogEntry of keylog/stats.rs and by the one of keylog/mod.rs
IsEntrySfb ==
    /\ pc = "ok"
    /\ \E i \in DOMAIN events, j \in DOMAIN events :
         query' = Some([fn |-> "is_entry_sfb", a |-> events[i], b |-> events[j],
                        ab |-> is_entry_sfb(events[i], events[j]),
                        ba |-> is_entry_sfb(events[j], events[i]),
                        mod_ab |-> mod_is_entry_sfb(events[i], events[j]),
                        mod_ba |-> mod_is_entry_sfb(events[j], events[i])])
    /\ UNCHANGED <<input_info, keylog, pc, events, series, keylog_stats>>

\* Presses of every key of the small layout, on both layers for the position
\* the second layer gives another key, and the three combos
PairRecords ==
    {Press(<<"0">>, <<"0">>, 0), Press(<<"0">>, <<"1">>, 0), Press(<<"0">>, <<"1">>, 1),
     Press(<<"1">>, <<"0">>, 0), Press(<<"1">>, <<"1">>, 0), Press(<<"2">>, <<"0">>, 0),
     ComboRecord(0, 0), ComboRecord(0, 1), ComboRecord(0, 2)}

\* The longest keylog of SpecPairs
MaxPair == 2

PairLogs == SeqsUpTo(PairRecords, MaxPair)

NextPairs ==
    \/ pc = "start" /\ \E raw_entries \in PairLogs : FromEntries(raw_entries)
    \/ IsEntrySfb

SpecPairs == Init /\ [][NextPairs]_vars

\* Every FingerAssignment there is
AllFingerAssignments ==
    {FingerAssignment(Fingers[i], half) : i \in 1..Len(Fingers), half \in {"Left", "Right"}}

\* a.cmp(&b), b.cmp(&a), b.cmp(&c) and a.cmp(&c) for three FingerAssignments
FingerAssignmentCmp ==
    /\ pc = "start"
    /\ \E a \in AllFingerAssignments, b \in AllFingerAssignments,
          c \in AllFingerAssignments :
         query' = Some([fn |-> "cmp", a |-> a, b |-> b, c |-> c,
                        ab |-> FingerAssignment_cmp(a, b),
                        ba |-> FingerAssignment_cmp(b, a),
                        bc |-> FingerAssignment_cmp(b, c),
                        ac |-> FingerAssignment_cmp(a, c)])
    /\ UNCHANGED <<input_info, keylog, pc, events, series, keylog_stats>>

\* The comparisons on their own, and the run on the reference log with the
\* query that iterates a BTreeMap keyed by FingerAssignment
NextOrder ==
    \/ FingerAssignmentCmp
    \/ pc = "start" /\ query = None
          /\ \E raw_entries \in RefPrefixes : FromEntries(raw_entries)
    \/ SfbFrequencyByFinger

SpecOrder == InitRef /\ [][NextOrder]_vars

\* Records with the coordinates that mark no matrix event, pressed and
\* released and with a layer the layout does not have, next to presses of
\* two keys of one finger and a combo index the layout does not have
SkipRecords ==
    {Press(<<"0">>, <<"0">>, 0), Press(<<"0">>, <<"1">>, 0),
     Press(<<"2", "5", "4">>, <<"2", "5", "4">>, 2),
     Release(<<"2", "5", "4">>, <<"2", "5", "4">>, 0),
     Press(<<"N", "A">>, <<"N", "A">>, 0),
     Release(<<"N", "A">>, <<"N", "A">>, 2),
     ComboRecord(0, 1), ComboRecord(1, 3)}

\* The keylogs of SpecSkip
SkipLogs == SeqsUpTo(SkipRecords, MaxRaw)

NextSkip ==
    pc = "start" /\ \E raw_entries \in SkipLogs : FromEntries(raw_entries)

SpecSkip == Init /\ [][NextSkip]_vars

-----------------------------------------------------------------------------
(* The properties.  They are stated over what a run leaves behind: the     *)
(* events the log resolved to, the Option<Sfb> of every adjacent pair, the *)
(* statistics and the last query.                                          *)

\* The physical position of a key: column, row and hand half
position(p) == <<p.col, p.row, p.finger.half>>

\* The adjacent pairs of events: i stands for (events[i], events[i + 1])
Pairs == 1..(Len(events) - 1)

SinglePair(i) == events[i].type = "Single" /\ events[i + 1].type = "Single"

SamePosition(i) ==
    position(events[i].key.physical_pos) = position(events[i + 1].key.physical_pos)

SameFinger(i) ==
    events[i].key.physical_pos.finger = events[i + 1].key.physical_pos.finger

\* C1: two adjacent Single events are an SFB if and only if their keys have
\* different physical positions and the same finger assignment; a Single
\* followed by a Single at the same position is never an SFB
C1_single_single ==
    \A i \in Pairs :
        SinglePair(i) => (series[i].some <=> (~SamePosition(i) /\ SameFinger(i)))

\* A log with a key repeated in place (same finger, no SFB) and an SFB of two
\* Single events
C1_witness ==
    /\ pc = "ok"
    /\ \E i \in Pairs : SinglePair(i) /\ SamePosition(i) /\ SameFinger(i)
                           /\ ~series[i].some
    /\ \E i \in Pairs : SinglePair(i) /\ ~SamePosition(i) /\ series[i].some

\* The positions and the fingers of a combo's keys
combo_positions(combo) ==
    {position(combo.keys[n].physical_pos) : n \in DOMAIN combo.keys}

combo_fingers(combo) ==
    {combo.keys[n].physical_pos.finger : n \in DOMAIN combo.keys}

\* What C2 says of the pair i made of the Single key and the Combo combo
SingleComboRule(i, key, combo) ==
    series[i].some <=>
        (/\ position(key.physical_pos) \notin combo_positions(combo)
         /\ key.physical_pos.finger \in combo_fingers(combo))

\* C2: an adjacent pair of one Single and one Combo event, in either order,
\* is an SFB if and only if the key's physical position is not among the
\* combo's key positions and the key's finger is among the combo's fingers
C2_single_combo ==
    \A i \in Pairs :
        /\ (events[i].type = "Single" /\ events[i + 1].type = "Combo")
               => SingleComboRule(i, events[i].key, events[i + 1].combo)
        /\ (events[i].type = "Combo" /\ events[i + 1].type = "Single")
               => SingleComboRule(i, events[i + 1].key, events[i].combo)

\* C3: two adjacent Combo events are an SFB if and only if their position
\* sets do not intersect and their finger sets do
C3_combo_combo ==
    \A i \in Pairs :
        (events[i].type = "Combo" /\ events[i + 1].type = "Combo") =>
            (series[i].some <=>
                (/\ combo_positions(events[i].combo)
                        \cap combo_positions(events[i + 1].combo) = {}
                 /\ combo_fingers(events[i].combo)
                        \cap combo_fingers(events[i + 1].combo) # {}))

\* A log of Single events alone, no two consecutive ones at one position
SingleOnly ==
    /\ pc = "ok"
    /\ \A i \in DOMAIN events : events[i].type = "Single"
    /\ \A i \in Pairs : ~SamePosition(i)

\* C4: for a log of Single events with no two consecutive events at the same
\* physical position, total_sfb_events is the number of adjacent pairs whose
\* keys share a finger assignment
C4_total_sfb_events ==
    SingleOnly =>
        keylog_stats.val.total_sfb_events
            = Cardinality({i \in Pairs : SameFinger(i)})

\* Such a log with pairs that share a finger and a pair that does not
C4_witness ==
    /\ SingleOnly
    /\ keylog_stats.val.total_sfb_events = 2
    /\ \E i \in Pairs : ~SameFinger(i)

\* The pairs i and j are SFBs of the same two Single events, in the two orders
ReversedSfbs(i, j) ==
    /\ series[i].some /\ series[i].val.type = "Single"
    /\ series[j].some /\ series[j].val.type = "Single"
    /\ series[i].val.first_key = series[j].val.second_key
    /\ series[i].val.second_key = series[j].val.first_key

\* C5 as the spec states it: the identity string of the SFB (A then B)
\* differs from that of the SFB (B then A), whatever the layout
C5_order_sensitive ==
    \A i, j \in Pairs :
        ReversedSfbs(i, j) => id(series[i].val) # id(series[j].val)

\* C5, amended: the identity string of the SFB (A then B) differs from that
\* of the SFB (B then A) when the keys A and B have different ids; both
\* strings are identities the statistics count under
C5_order_sensitive_ids ==
    \A i, j \in Pairs :
        (ReversedSfbs(i, j)
            /\ series[i].val.first_key.id # series[i].val.second_key.id) =>
                /\ id(series[i].val) # id(series[j].val)
                /\ {id(series[i].val), id(series[j].val)}
                       \subseteq DOMAIN keylog_stats.val.sfbs_by_id

\* A log with the SFB of two keys of different ids in both orders
C5_witness ==
    /\ pc = "ok"
    /\ \E i, j \in Pairs :
           /\ ReversedSfbs(i, j)
           /\ series[i].val.first_key.id # series[i].val.second_key.id

\* The last query is top_sfbs
AskedTop == query.some /\ query.val.fn = "top_sfbs"

\* C6: top_sfbs(n, false) never returns an entry whose Sfb is the Combo
\* variant
C6_no_combo ==
    (AskedTop /\ ~query.val.include_combos) =>
        \A i \in DOMAIN query.val.result : query.val.result[i].sfb.type # "Combo"

\* top_sfbs(n, false) returned an entry although an identity of the Combo
\* variant has as many presses
C6_witness ==
    /\ AskedTop /\ ~query.val.include_combos
    /\ query.val.result # <<>>
    /\ \E k \in DOMAIN keylog_stats.val.sfbs_by_id :
           /\ keylog_stats.val.sfbs_by_id[k].sfb.type = "Combo"
           /\ keylog_stats.val.sfbs_by_id[k].presses >= query.val.result[1].presses

\* The identities that pass the combo filter of the last query
Eligible ==
    {k \in DOMAIN keylog_stats.val.sfbs_by_id :
        query.val.include_combos
            \/ keylog_stats.val.sfbs_by_id[k].sfb.type # "Combo"}

\* The identities the last query returned
ReturnedIds == {id(query.val.result[i].sfb) : i \in DOMAIN query.val.result}

\* C7: top_sfbs(n, include_combos) returns exactly min(n, E) entries, E the
\* number of identities that pass the combo filter; they are distinct
\* eligible identities with their counts, in non-increasing order of presses,
\* and each has at least the presses of every eligible identity not returned
C7_top_sfbs ==
    AskedTop =>
        /\ Len(query.val.result) = Min(query.val.count, Cardinality(Eligible))
        /\ Cardinality(ReturnedIds) = Len(query.val.result)
        /\ ReturnedIds \subseteq Eligible
        /\ \A i \in DOMAIN query.val.result :
               /\ query.val.result[i]
                      = keylog_stats.val.sfbs_by_id[id(query.val.result[i].sfb)]
               /\ \A j \in DOMAIN query.val.result :
                      i < j => query.val.result[i].presses
                                   >= query.val.result[j].presses
               /\ \A k \in Eligible \ ReturnedIds :
                      query.val.result[i].presses
                          >= keylog_stats.val.sfbs_by_id[k].presses

\* top_sfbs(1, _) chose the identity of two presses over one of one press
C7_witness ==
    /\ AskedTop /\ query.val.count = 1
    /\ Len(query.val.result) = 1 /\ query.val.result[1].presses = 2
    /\ \E k \in Eligible \ ReturnedIds :
           keylog_stats.val.sfbs_by_id[k].presses = 1

\* The number of keys of an event
key_count(event) == IF event.type = "Combo" THEN Len(event.combo.keys) ELSE 1

\* The sum of the finger_frequency values of the fingers of the given halves
frequency_sum(finger_frequency, halves) ==
    SumSeq([i \in DOMAIN finger_frequency |->
               IF finger_frequency[i].key.half \in halves
               THEN finger_frequency[i].val ELSE 0])

\* C8: total_key_presses is the sum of the finger_frequency values, the sum
\* over the events of their key counts, and the sum of the left and right
\* totals, which are the finger_frequency sums of each hand half
C8_total_key_presses ==
    pc = "ok" =>
        /\ keylog_stats.val.total_key_presses
               = frequency_sum(keylog_stats.val.finger_frequency, {"Left", "Right"})
        /\ keylog_stats.val.total_key_presses
               = SumSeq([i \in DOMAIN events |-> key_count(events[i])])
        /\ keylog_stats.val.total_key_presses
               = keylog_stats.val.total_key_presses_left
                     + keylog_stats.val.total_key_presses_right
        /\ keylog_stats.val.total_key_presses_left
               = frequency_sum(keylog_stats.val.finger_frequency, {"Left"})
        /\ keylog_stats.val.total_key_presses_right
               = frequency_sum(keylog_stats.val.finger_frequency, {"Right"})

\* A log with Single and Combo events and presses on both halves
C8_witness ==
    /\ pc = "ok"
    /\ \E i \in DOMAIN events : events[i].type = "Single"
    /\ \E i \in DOMAIN events : key_count(events[i]) = 2
    /\ keylog_stats.val.total_key_presses_left >= 3
    /\ keylog_stats.val.total_key_presses_right >= 2

\* The values a BTreeMap keyed by FingerAssignment holds for (finger, half):
\* one value, or none when the map has no such entry
values_of(map, finger, half) ==
    {map[i].val : i \in {n \in DOMAIN map : map[n].key = FingerAssignment(finger, half)}}

\* The run went over the whole reference log
RanReference == pc = "ok" /\ keylog = RefKeylog

\* The tap_count of the COMBO records of a log, in order
RECURSIVE combo_indices(_)
combo_indices(raw_entries) ==
    IF raw_entries = <<>> THEN <<>>
    ELSE IF Head(raw_entries).keycode = "COMBO"
    THEN <<Head(raw_entries).tap_count>> \o combo_indices(Tail(raw_entries))
    ELSE combo_indices(Tail(raw_entries))

\* C9: on the reference log of 17 rows (11 single presses and the combos at
\* indices 0, 3, 4, 6, 2, 6) over the reference layout, total_events is 17,
\* total_key_presses 26, total_sfb_events 8, finger_frequency has 7 for
\* (Ring, Left), 5 for (Index, Right) and no entry for (Pinky, Left), and
\* sfb_frequency_by_finger(true) has 4 for (Ring, Left), 4 for (Index, Right)
\* and no entry for (Pinky, Left)
C9_reference_log ==
    RanReference =>
        /\ Len(keylog) = 17
        /\ combo_indices(keylog) = <<0, 3, 4, 6, 2, 6>>
        /\ Cardinality({i \in DOMAIN events : events[i].type = "Single"}) = 11
        /\ keylog_stats.val.total_events = 17
        /\ keylog_stats.val.total_key_presses = 26
        /\ keylog_stats.val.total_sfb_events = 8
        /\ values_of(keylog_stats.val.finger_frequency, "Ring", "Left") = {7}
        /\ values_of(keylog_stats.val.finger_frequency, "Index", "Right") = {5}
        /\ values_of(keylog_stats.val.finger_frequency, "Pinky", "Left") = {}
        /\ (query.some /\ query.val.fn = "sfb_frequency_by_finger"
                /\ query.val.include_combos) =>
               /\ values_of(query.val.result, "Ring", "Left") = {4}
               /\ values_of(query.val.result, "Index", "Right") = {4}
               /\ values_of(query.val.result, "Pinky", "Left") = {}

\* sfb_frequency_by_finger(true) was asked after the reference log
C9_witness ==
    /\ RanReference
    /\ query.some /\ query.val.fn = "sfb_frequency_by_finger"
    /\ query.val.include_combos

\* The records that survive: every COMBO record, and every other record with
\* pressed != 0 and coordinates other than (254, 254)
Survives(entry) ==
    \/ entry.keycode = "COMBO"
    \/ /\ entry.pressed # 0
       /\ ~(entry.row = <<"2", "5", "4">> /\ entry.col = <<"2", "5", "4">>)

\* The event that C10 gives the surviving record: the combo of its index, or
\* a Single of the key at its coordinates
EventOf(entry, event) ==
    IF entry.keycode = "COMBO"
    THEN /\ event.type = "Combo"
         /\ event.combo = InputInfo(input_info).keymap.combos[entry.tap_count + 1]
    ELSE /\ event.type = "Single"
         /\ event.key.matrix_pos
                = <<DigitsValue(entry.row, 0), DigitsValue(entry.col, 0)>>

\* The events are those of the records surv, one each and in order
EventsOf(surv) ==
    /\ Len(events) = Len(surv)
    /\ \A i \in DOMAIN surv : EventOf(surv[i], events[i])
    /\ keylog_stats.val.total_events = Len(surv)

\* C10: when resolution succeeds, the events are one Combo event per COMBO
\* record, whatever its pressed value, and one Single event per other record
\* with pressed != 0 and coordinates other than (254, 254); records with
\* pressed = 0 give no event, and total_events is the number of surviving
\* records
C10_surviving_records ==
    pc = "ok" => EventsOf(SelectSeq(keylog, Survives))

\* A log that resolved, with a released combo, a release, a press at
\* (254, 254) and a press that gave a Single event
C10_witness ==
    /\ pc = "ok"
    /\ \E i \in DOMAIN keylog : keylog[i].keycode = "COMBO" /\ keylog[i].pressed = 0
    /\ \E i \in DOMAIN keylog : keylog[i].keycode # "COMBO" /\ keylog[i].pressed = 0
    /\ \E i \in DOMAIN keylog :
           /\ keylog[i].pressed # 0
           /\ keylog[i].row = <<"2", "5", "4">> /\ keylog[i].col = <<"2", "5", "4">>
    /\ \E i \in DOMAIN events : events[i].type = "Single"
    /\ Len(events) = 2

\* A record that is no COMBO with row 254 and col 254
Sentinel254(entry) ==
    /\ entry.keycode # "COMBO"
    /\ entry.row = <<"2", "5", "4">> /\ entry.col = <<"2", "5", "4">>

\* A record that is no COMBO with row "NA"
SentinelNA(entry) == entry.keycode # "COMBO" /\ entry.row = <<"N", "A">>

\* The run ended as the resolution of log ends: same status, and the same
\* events when it succeeds
EndedAs(log) ==
    LET r == convert_keylog_entries(log, InputInfo(input_info))
    IN  /\ pc = r.status
        /\ pc = "ok" => events = r.res

AllSentinels(entry) == Sentinel254(entry) \/ SentinelNA(entry)

SkippedSentinels(entry) ==
    Sentinel254(entry) \/ (SentinelNA(entry) /\ entry.pressed = 0)

NotAllSentinels(entry) == ~AllSentinels(entry)

NotSkippedSentinels(entry) == ~SkippedSentinels(entry)

\* C11 as stated: every record that is no COMBO and has row 254 and col 254,
\* or row "NA", is skipped whatever its other fields: the run ends as it ends
\* on the log without these records (no event from them, no failure by them)
C11_sentinels_skipped ==
    pc # "start" => EndedAs(SelectSeq(keylog, NotAllSentinels))

\* C11 amended: every record that is no COMBO and has row 254 and col 254 is
\* skipped whatever its other fields, and one with row "NA" is skipped when
\* its pressed is 0: the run ends as it ends on the log without these records
C11_sentinels_skipped_unless_pressed_NA ==
    pc # "start" => EndedAs(SelectSeq(keylog, NotSkippedSentinels))

\* A log that resolved to one event, with a press at (254, 254) on a layer
\* the layout does not have and a release with row "NA"
C11_witness ==
    /\ pc = "ok"
    /\ \E i \in DOMAIN keylog :
           Sentinel254(keylog[i]) /\ keylog[i].pressed # 0 /\ keylog[i].highest_layer = 2
    /\ \E i \in DOMAIN keylog : SentinelNA(keylog[i]) /\ keylog[i].pressed = 0
    /\ Len(events) = 1

\* A string that is no unsigned decimal integer
NotUnsigned(s) == s = <<>> \/ \E i \in DOMAIN s : ~IsDigit(s[i])

\* A press that is no COMBO, with a row or a col that is no number
MalformedPress(entry) ==
    /\ entry.keycode # "COMBO"
    /\ entry.pressed # 0
    /\ NotUnsigned(entry.row) \/ NotUnsigned(entry.col)

\* A press that is no COMBO, with numbers other than (254, 254) for row and col
MatrixPress(entry) ==
    /\ entry.keycode # "COMBO"
    /\ entry.pressed # 0
    /\ ~NotUnsigned(entry.row) /\ ~NotUnsigned(entry.col)
    /\ ~Sentinel254(entry)

layers == InputInfo(input_info).keymap.layers

\* The keys of layer l (counted from 0) at matrix position p with an id that
\* is no placeholder
ConcreteKeys(l, p) ==
    {k \in {layers[l + 1].keys[i] : i \in DOMAIN layers[l + 1].keys} :
        k.matrix_pos = p /\ k.id \notin {"_______", "xxxxxxx"}}

matrix_position(entry) == <<DigitsValue(entry.row, 0), DigitsValue(entry.col, 0)>>

\* A COMBO record with an index the combo list does not have
BadCombo(entry) ==
    /\ entry.keycode = "COMBO"
    /\ entry.tap_count >= Len(InputInfo(input_info).keymap.combos)

\* A press with a layer index the layout does not have
BadLayer(entry) == MatrixPress(entry) /\ entry.highest_layer >= Len(layers)

\* A press with a layer of the layout, at a position where no layer from
\* that layer down to 0 has a concrete key
NoKey(entry) ==
    /\ MatrixPress(entry)
    /\ entry.highest_layer < Len(layers)
    /\ \A l \in 0..entry.highest_layer : ConcreteKeys(l, matrix_position(entry)) = {}

\* A record that refers to what the layout does not have
Missing(entry) == BadCombo(entry) \/ BadLayer(entry) \/ NoKey(entry)

\* A record resolution does not go past
Invalid(entry) == MalformedPress(entry) \/ Missing(entry)

\* The run gave no KeylogStats
NoStats == keylog_stats = None /\ events = <<>> /\ series = <<>>

\* C12: a log with a press that is no COMBO and has a row or col that is no
\* unsigned decimal integer, after valid records only and before any records,
\* makes from_entries return Err and gives no KeylogStats
C12_malformed_is_err ==
    (\E i \in DOMAIN keylog :
        /\ MalformedPress(keylog[i])
        /\ \A j \in 1..(i - 1) : ~Invalid(keylog[j]))
    => pc = "err" /\ NoStats

\* A log of four records ended in Err, the malformed press being the third,
\* with a number for its row, after two records that gave events
C12_witness ==
    /\ pc = "err"
    /\ Len(keylog) = 4
    /\ MalformedPress(keylog[3]) /\ ~NotUnsigned(keylog[3].row)
    /\ keylog[1].keycode = "COMBO" /\ MatrixPress(keylog[2])
    /\ ~Invalid(keylog[1]) /\ ~Invalid(keylog[2]) /\ ~Invalid(keylog[4])

\* Record i is the first record of the log that resolution does not go past
FirstInvalid(i) == Invalid(keylog[i]) /\ \A j \in 1..(i - 1) : ~Invalid(keylog[j])

\* C13: a press that is no COMBO with a highest_layer that is no layer index
\* of the layout (highest_layer >= number of layers) makes resolution return
\* Err ("Layer out of bounds"), not abort
C13_bad_layer_is_err ==
    (\E i \in DOMAIN keylog : FirstInvalid(i) /\ BadLayer(keylog[i])) => pc = "err"

\* C14: a COMBO record with tap_count >= the number of combos, and a press
\* with a layer of the layout at a matrix position where no layer from
\* highest_layer down to 0 has a concrete key, abort the run (panic) and do
\* not return Err
C14_missing_element_panics ==
    (\E i \in DOMAIN keylog :
        FirstInvalid(i) /\ (BadCombo(keylog[i]) \/ NoKey(keylog[i])))
    => pc = "panic" /\ NoStats

\* A run that aborted on its third record, a press on layer 1 at a position
\* where layers 1 and 0 have placeholders only, after a press and a combo
\* that resolved and before a COMBO record with an index past the combo list
C14_witness ==
    /\ pc = "panic"
    /\ Len(keylog) = 4
    /\ MatrixPress(keylog[1]) /\ keylog[2].keycode = "COMBO"
    /\ FirstInvalid(3) /\ NoKey(keylog[3]) /\ keylog[3].highest_layer = 1
    /\ BadCombo(keylog[4])

\* find_key_by_matrix was asked for a layer of the layout
AskedFind ==
    /\ query.some /\ query.val.fn = "find_key_by_matrix"
    /\ query.val.highest_layer < Len(layers)

\* The layers from h down to 0 with a concrete key at p
ConcreteLayers(h, p) == {l \in 0..h : ConcreteKeys(l, p) # {}}

Greatest(S) == CHOOSE l \in S : \A m \in S : m <= l

\* C15: for a layer h of the layout, find_key_by_matrix(h, pos) is the key at
\* pos of the greatest layer l <= h that has a key at pos with an id other
\* than "_______" and "xxxxxxx", and None exactly when no layer of 0..h has
\* one (the scan ends at layer 0); the key of a Single event is never a
\* placeholder
C15_find_key_by_matrix ==
    /\ AskedFind =>
          LET found == ConcreteLayers(query.val.highest_layer, query.val.pos)
          IN  IF found = {} THEN query.val.result = None
              ELSE /\ query.val.result.some
                   /\ query.val.result.val
                          \in ConcreteKeys(Greatest(found), query.val.pos)
    /\ \A i \in DOMAIN events :
          events[i].type = "Single" => events[i].key.id \notin {"_______", "xxxxxxx"}

\* find_key_by_matrix was asked for layer 1 at a position where layer 1 has a
\* placeholder, and gave the key of layer 0
C15_witness ==
    /\ AskedFind
    /\ query.val.highest_layer = 1
    /\ ConcreteLayers(1, query.val.pos) = {0}
    /\ \E i \in DOMAIN layers[2].keys :
           /\ layers[2].keys[i].matrix_pos = query.val.pos
           /\ layers[2].keys[i].id = "_______"
    /\ query.val.result.some

\* The number of surviving records among the first j records of the log: the
\* place among the events of the event of record j, when record j survives
place(j) == Cardinality({k \in 1..j : Survives(keylog[k])})

\* The keys of an event
keys_of(event) == IF event.type = "Single" THEN <<event.key>> ELSE event.combo.keys

first_of(sfb) == IF sfb.type = "Single" THEN <<sfb.first_key>> ELSE sfb.first_keys

second_of(sfb) == IF sfb.type = "Single" THEN <<sfb.second_key>> ELSE sfb.second_keys

\* C16: the events keep the order of the records: of two surviving records
\* the event of the earlier one comes first, and every adjacent pair
\* (events[i], events[i+1]) the SFB detector scans, one per i, is made of the
\* events of two surviving records with no surviving record between them
C16_input_order ==
    pc = "ok" =>
        /\ \A j, k \in DOMAIN keylog :
              (j < k /\ Survives(keylog[j]) /\ Survives(keylog[k])) =>
                  /\ place(j) < place(k) /\ place(k) <= Len(events)
                  /\ EventOf(keylog[j], events[place(j)])
                  /\ EventOf(keylog[k], events[place(k)])
                  /\ (\A m \in (j + 1)..(k - 1) : ~Survives(keylog[m]))
                        => place(k) = place(j) + 1
        /\ DOMAIN series = 1..(Len(events) - 1)
        /\ \A i \in DOMAIN series :
              series[i].some =>
                  /\ first_of(series[i].val) = keys_of(events[i])
                  /\ second_of(series[i].val) = keys_of(events[i + 1])

\* A log of two presses of different keys with a record that does not
\* survive between them, and a combo, resolved to three events, with an SFB
\* of the two presses
C16_witness ==
    /\ pc = "ok"
    /\ Len(keylog) = 4 /\ Len(events) = 3
    /\ ~Survives(keylog[2])
    /\ events[1].type = "Single" /\ events[2].type = "Single"
    /\ events[1].key # events[2].key
    /\ events[3].type = "Combo"
    /\ series[1].some

\* The last query is sfb_frequency_by_finger
AskedFrequency == query.some /\ query.val.fn = "sfb_frequency_by_finger"

FingerAssignments ==
    {FingerAssignment(Fingers[i], half) : i \in DOMAIN Fingers, half \in {"Left", "Right"}}

\* The fingers of an Sfb
fingers_of(sfb) == IF sfb.type = "Single" THEN {sfb.finger} ELSE sfb.fingers

\* The number of SFB pairs of the run that involve the finger and that the
\* filter counts
Occurrences(finger, include_combos) ==
    Cardinality({i \in DOMAIN series :
                    /\ series[i].some
                    /\ finger \in fingers_of(series[i].val)
                    /\ include_combos \/ series[i].val.type = "Single"})

\* The entries of the last result for the finger
entries_of(finger) == {i \in DOMAIN query.val.result : query.val.result[i].key = finger}

\* C17 as stated: for each value of include_combos the result of
\* sfb_frequency_by_finger(include_combos) has no entry of value 0: a finger
\* with no SFB occurrence that the filter counts is absent, and every finger
\* present has a count of at least 1
C17_no_zero_entry ==
    AskedFrequency =>
        /\ \A i \in DOMAIN query.val.result : query.val.result[i].val >= 1
        /\ \A finger \in FingerAssignments :
               Occurrences(finger, query.val.include_combos) = 0
                   => entries_of(finger) = {}

\* The fingers of the sfbs_by_finger table of the run
indexed_fingers ==
    {keylog_stats.val.sfbs_by_finger[i].key : i \in DOMAIN keylog_stats.val.sfbs_by_finger}

\* C17 amended: sfb_frequency_by_finger(true) has no entry of value 0; for
\* both values of include_combos the result has one entry for every finger
\* of the sfbs_by_finger table and no other, each a finger with an SFB
\* occurrence of either variant; with include_combos = false the entry of a
\* finger is 0 when the filter counts none of its occurrences
C17_zero_entry_only_without_combos ==
    AskedFrequency =>
        /\ \A finger \in FingerAssignments :
               Cardinality(entries_of(finger))
                   = IF finger \in indexed_fingers THEN 1 ELSE 0
        /\ \A i \in DOMAIN query.val.result :
               /\ Occurrences(query.val.result[i].key, TRUE) >= 1
               /\ query.val.include_combos => query.val.result[i].val >= 1
               /\ Occurrences(query.val.result[i].key, query.val.include_combos) = 0
                      => query.val.result[i].val = 0

\* sfb_frequency_by_finger(false) gave an entry of value 0 and an entry of
\* value 1, and a finger without SFBs is absent
C17_witness ==
    /\ AskedFrequency /\ ~query.val.include_combos
    /\ \E i, j \in DOMAIN query.val.result :
           query.val.result[i].val = 0 /\ query.val.result[j].val = 1
    /\ \E finger \in FingerAssignments : entries_of(finger) = {}

\* The results of any run of from_entries on the layout and the log of this run
Reruns == from_entries(InputInfo(input_info), keylog)

\* C18: a second run on the same records and the same layout gives the same
\* results as this run: the same tables and totals, and the same sequence
\* from top_sfbs(n, include_combos) for every n, also when several
\* identities have equal counts
C18_rerun_agrees ==
    pc = "ok" =>
        \A again \in Reruns :
            /\ again.stats = keylog_stats.val
            /\ \A n \in 0..MaxCount, include_combos \in BOOLEAN :
                   top_sfbs(again.stats, n, include_combos)
                       = top_sfbs(keylog_stats.val, n, include_combos)

\* No key of the combo has the column, the row and the hand half of the key
NoKeyAt(key, combo) ==
    \A n \in DOMAIN combo.keys :
        \/ combo.keys[n].physical_pos.col # key.physical_pos.col
        \/ combo.keys[n].physical_pos.row # key.physical_pos.row
        \/ combo.keys[n].physical_pos.finger.half # key.physical_pos.finger.half

\* What C19 says of the pair i made of the Single key and the Combo combo
HalvesRule(i, key, combo) ==
    (key.physical_pos.finger \in combo_fingers(combo) /\ NoKeyAt(key, combo))
        => series[i].some

\* C19: a Single key K next to a Combo C is an SFB whenever K's finger is
\* among C's fingers and no key of C has the column, row and hand half of K,
\* also when a key of C on the other half has K's column and row
C19_halves_distinguished ==
    \A i \in Pairs :
        /\ (events[i].type = "Single" /\ events[i + 1].type = "Combo")
               => HalvesRule(i, events[i].key, events[i + 1].combo)
        /\ (events[i].type = "Combo" /\ events[i + 1].type = "Single")
               => HalvesRule(i, events[i + 1].key, events[i].combo)

\* The adjacent pairs classified as SFB, and those of them with identity s
SfbPairs == {i \in DOMAIN series : series[i].some}

PairsOf(s) == {i \in SfbPairs : id(series[i].val) = s}

\* The sum of presses over the identities of sfbs_by_id
presses_sum ==
    LET ids == SetToSeq(DOMAIN keylog_stats.val.sfbs_by_id)
    IN  SumSeq([n \in DOMAIN ids |-> keylog_stats.val.sfbs_by_id[ids[n]].presses])

\* C20: for every identity string s, sfbs_by_id[s].presses is the number of
\* adjacent pairs classified as SFB whose Sfb has identity s (an identity no
\* pair has is no key of sfbs_by_id); total_sfb_events is the sum of presses
\* over all identities, which is the number of SFB pairs
C20_presses_by_id ==
    pc = "ok" =>
        /\ DOMAIN keylog_stats.val.sfbs_by_id = {id(series[i].val) : i \in SfbPairs}
        /\ \A s \in DOMAIN keylog_stats.val.sfbs_by_id :
               keylog_stats.val.sfbs_by_id[s].presses = Cardinality(PairsOf(s))
        /\ keylog_stats.val.total_sfb_events = presses_sum
        /\ keylog_stats.val.total_sfb_events = Cardinality(SfbPairs)

\* Three SFB pairs of two identities: one identity with two presses
C20_witness ==
    /\ pc = "ok"
    /\ Cardinality(SfbPairs) = 3
    /\ Cardinality(DOMAIN keylog_stats.val.sfbs_by_id) = 2
    /\ \E s \in DOMAIN keylog_stats.val.sfbs_by_id :
           keylog_stats.val.sfbs_by_id[s].presses = 2

\* The identities of sfbs_by_id whose stored Sfb touches the finger and that
\* pass the combo filter
touching(finger, include_combos) ==
    {s \in DOMAIN keylog_stats.val.sfbs_by_id :
        /\ finger \in fingers_of(keylog_stats.val.sfbs_by_id[s].sfb)
        /\ include_combos \/ keylog_stats.val.sfbs_by_id[s].sfb.type = "Single"}

\* The sum of the occurrence counts of a set of identities
count_sum(ids) ==
    LET order == SetToSeq(ids)
    IN  SumSeq([n \in DOMAIN order |-> keylog_stats.val.sfbs_by_id[order[n]].presses])

\* C21: the entry of finger f in sfb_frequency_by_finger(include_combos) is
\* the sum of the occurrence counts of the identities whose stored Sfb
\* touches f and that pass the combo filter, an identity with a combo giving
\* its full count to every finger it touches; a finger has an entry when an
\* identity of either variant touches it and none otherwise, and the entries
\* come in FingerAssignment order
C21_frequency_by_finger ==
    AskedFrequency =>
        /\ \A i \in DOMAIN query.val.result :
               query.val.result[i].val
                   = count_sum(touching(query.val.result[i].key,
                                        query.val.include_combos))
        /\ \A finger \in FingerAssignments :
               Cardinality(entries_of(finger))
                   = IF touching(finger, TRUE) = {} THEN 0 ELSE 1
        /\ \A i, j \in DOMAIN query.val.result :
               i < j => FingerAssignment_cmp(query.val.result[i].key,
                                             query.val.result[j].key) < 0

\* sfb_frequency_by_finger(true) gave two entries, one of them 2 from an
\* identity with a combo that touches both fingers and a second identity
C21_witness ==
    /\ AskedFrequency /\ query.val.include_combos
    /\ Len(query.val.result) = 2
    /\ \E s \in DOMAIN keylog_stats.val.sfbs_by_id :
           Cardinality(fingers_of(keylog_stats.val.sfbs_by_id[s].sfb)) = 2
    /\ \E i \in DOMAIN query.val.result :
           /\ query.val.result[i].val = 2
           /\ Cardinality(touching(query.val.result[i].key, TRUE)) = 2

\* The fingers of the keys of an event
event_fingers(event) ==
    {keys_of(event)[n].physical_pos.finger : n \in DOMAIN keys_of(event)}

\* What C22 says of the Sfb made of the events current and next
SfbOf(sfb, current, next) ==
    /\ sfb.type = "Single" <=> (current.type = "Single" /\ next.type = "Single")
    /\ sfb.type = "Single" =>
           /\ sfb.first_key = current.key /\ sfb.second_key = next.key
           /\ sfb.finger = current.key.physical_pos.finger
           /\ sfb.finger = next.key.physical_pos.finger
    /\ sfb.type # "Single" =>
           /\ sfb.type = "Combo"
           /\ sfb.fingers = event_fingers(current) \cup event_fingers(next)
           /\ sfb.first_keys = keys_of(current)
           /\ sfb.second_keys = keys_of(next)

\* C22: the Sfb of an adjacent pair that is an SFB is the Single variant
\* exactly when both events are Single, with the finger of the first key,
\* which is the finger of the second key; for a pair with a combo it is the
\* Combo variant with the union of the fingers of both sides and the keys of
\* the earlier and of the later event as first_keys and second_keys
C22_sfb_variant ==
    \A i \in SfbPairs : SfbOf(series[i].val, events[i], events[i + 1])

\* A run with an SFB of two Single events, an SFB of a Single and a Combo
\* event, and an SFB of two combos one of which has a finger the other has not
C22_witness ==
    /\ \E i \in SfbPairs : series[i].val.type = "Single"
    /\ \E i \in SfbPairs : events[i].type = "Single" /\ events[i + 1].type = "Combo"
    /\ \E i \in SfbPairs :
           /\ events[i].type = "Combo" /\ events[i + 1].type = "Combo"
           /\ event_fingers(events[i]) # event_fingers(events[i + 1])

\* The output label of an event: the output of the combo, the id of the key
label(event) == IF event.type = "Combo" THEN event.combo.output ELSE event.key.id

\* The events with the label
labelled(l) == {i \in DOMAIN events : label(events[i]) = l}

\* The sum of the values of output_frequency
output_sum ==
    LET labels == SetToSeq(DOMAIN keylog_stats.val.output_frequency)
    IN  SumSeq([n \in DOMAIN labels |-> keylog_stats.val.output_frequency[labels[n]]])

\* C23: output_frequency counts every event once under its output label (the
\* output of the combo, the id of the key), so its values sum to
\* total_events, and a combo of k keys adds 1 to both
C23_output_frequency ==
    pc = "ok" =>
        /\ DOMAIN keylog_stats.val.output_frequency
               = {label(events[i]) : i \in DOMAIN events}
        /\ \A l \in DOMAIN keylog_stats.val.output_frequency :
               keylog_stats.val.output_frequency[l] = Cardinality(labelled(l))
        /\ output_sum = keylog_stats.val.total_events
        /\ keylog_stats.val.total_events = Len(events)

\* Four events, a combo of two keys twice among them: its label counts 2
C23_witness ==
    /\ pc = "ok"
    /\ keylog_stats.val.total_events = 4
    /\ \E i \in DOMAIN events :
           /\ events[i].type = "Combo" /\ Len(events[i].combo.keys) = 2
           /\ keylog_stats.val.output_frequency[events[i].combo.output] = 2
    /\ \E i \in DOMAIN events : events[i].type = "Single"

\* The (event, constituent key) pairs whose key is assigned to the finger
key_presses(finger) ==
    UNION {{<<i, n>> : n \in {m \in DOMAIN keys_of(events[i]) :
                                keys_of(events[i])[m].physical_pos.finger = finger}} :
           i \in DOMAIN events}

\* The entries of finger_frequency for the finger
frequency_entries(finger) ==
    {i \in DOMAIN keylog_stats.val.finger_frequency :
        keylog_stats.val.finger_frequency[i].key = finger}

\* C24: finger_frequency[f] is the number of (event, constituent key) pairs
\* whose key is assigned to f: 1 per Single event, 1 per key of a Combo
\* event (2 to one finger when two of its keys share it), and no entry for a
\* finger that is never used
C24_finger_frequency ==
    pc = "ok" =>
        \A finger \in FingerAssignments :
            /\ Cardinality(frequency_entries(finger))
                   = IF key_presses(finger) = {} THEN 0 ELSE 1
            /\ \A i \in frequency_entries(finger) :
                   keylog_stats.val.finger_frequency[i].val
                       = Cardinality(key_presses(finger))

\* A run with a Combo event two keys of which share a finger, Single events,
\* and a finger that is never used
C24_witness ==
    /\ pc = "ok"
    /\ \E i \in DOMAIN events :
           /\ events[i].type = "Combo"
           /\ Cardinality(event_fingers(events[i])) < Len(events[i].combo.keys)
    /\ \E i \in DOMAIN events : events[i].type = "Single"
    /\ \E finger \in FingerAssignments : frequency_entries(finger) = {}

\* The fingers as they lie from left to right across both hands
LeftToRight ==
    <<FingerAssignment("Pinky", "Left"), FingerAssignment("Ring", "Left"),
      FingerAssignment("Middle", "Left"), FingerAssignment("Index", "Left"),
      FingerAssignment("Thumb", "Left"), FingerAssignment("Thumb", "Right"),
      FingerAssignment("Index", "Right"), FingerAssignment("Middle", "Right"),
      FingerAssignment("Ring", "Right"), FingerAssignment("Pinky", "Right")>>

seat(finger) == CHOOSE n \in DOMAIN LeftToRight : LeftToRight[n] = finger

\* The keys of a BTreeMap come from left to right
Ascending(map) ==
    \A i, j \in DOMAIN map : i < j => seat(map[i].key) < seat(map[j].key)

AskedCmp == query.some /\ query.val.fn = "cmp"

\* C25: the comparison of FingerAssignment is a total order consistent with
\* equality (Equal for equal entries alone, a.cmp(b) the reverse of b.cmp(a),
\* transitive) in which every Left entry is before every Right entry, Left
\* entries ascend from Pinky to Thumb and Right entries descend from Thumb to
\* Pinky; finger_frequency and sfb_frequency_by_finger iterate in this order
C25_finger_assignment_order ==
    /\ AskedCmp =>
          /\ query.val.ab = 0 <=> query.val.a = query.val.b
          /\ query.val.ab = 0 - query.val.ba
          /\ (query.val.ab <= 0 /\ query.val.bc <= 0) => query.val.ac <= 0
          /\ query.val.ab < 0 <=> seat(query.val.a) < seat(query.val.b)
          /\ (query.val.a.half = "Left" /\ query.val.b.half = "Right")
                 => query.val.ab < 0
    /\ pc = "ok" => Ascending(keylog_stats.val.finger_frequency)
    /\ AskedFrequency => Ascending(query.val.result)

\* sfb_frequency_by_finger iterated over entries of both halves, two of them
\* Right, after a run with two Left and two Right fingers in finger_frequency
C25_witness ==
    /\ AskedFrequency
    /\ \E i, j \in DOMAIN query.val.result :
           /\ i < j
           /\ query.val.result[i].key.half = "Right"
           /\ query.val.result[j].key.half = "Right"
    /\ \E i \in DOMAIN query.val.result : query.val.result[i].key.half = "Left"
    /\ \E i, j \in DOMAIN keylog_stats.val.finger_frequency :
           /\ i < j
           /\ keylog_stats.val.finger_frequency[i].key.half = "Left"
           /\ keylog_stats.val.finger_frequency[j].key.half = "Left"

\* The identities of the entries of sfbs
sfbs_ids == {id(keylog_stats.val.sfbs[i].sfb) : i \in DOMAIN keylog_stats.val.sfbs}

\* C26: after construction sfbs holds one SfbStats per identity of
\* sfbs_by_id and no other, with the presses of the sfbs_by_id entry, in
\* non-decreasing order of presses
C26_sfbs_sorted ==
    pc = "ok" =>
        /\ Len(keylog_stats.val.sfbs) = Cardinality(DOMAIN keylog_stats.val.sfbs_by_id)
        /\ sfbs_ids = DOMAIN keylog_stats.val.sfbs_by_id
        /\ \A i \in DOMAIN keylog_stats.val.sfbs :
               keylog_stats.val.sfbs[i].presses
                   = keylog_stats.val.sfbs_by_id[id(keylog_stats.val.sfbs[i].sfb)].presses
        /\ \A i, j \in DOMAIN keylog_stats.val.sfbs :
               i < j => keylog_stats.val.sfbs[i].presses
                            <= keylog_stats.val.sfbs[j].presses

\* sfbs holds two identities, the first with 1 press and the second with 2
C26_witness ==
    /\ pc = "ok"
    /\ Len(keylog_stats.val.sfbs) = 2
    /\ keylog_stats.val.sfbs[1].presses = 1
    /\ keylog_stats.val.sfbs[2].presses = 2

\* A record that is no COMBO, with pressed = 0
IsRelease(entry) == entry.keycode # "COMBO" /\ entry.pressed = 0

NoRelease(entry) == ~IsRelease(entry)

\* The run ended as a run on the log ends: same status, and on success the
\* same events and every field of KeylogStats the same
OutcomeOf(log) ==
    \E r \in from_entries(InputInfo(input_info), log) :
        /\ pc = r.status
        /\ pc = "ok" => (events = r.entries /\ keylog_stats.val = r.stats)

\* C27: records that are no COMBO with pressed = 0, whatever their row, col
\* and highest_layer, do not affect the statistics: the run ends as a run on
\* the log without them, with every field of KeylogStats the same, so two
\* presses with releases alone between them are adjacent for SFB detection
C27_releases_ignored ==
    pc # "start" =>
        /\ OutcomeOf(SelectSeq(keylog, NoRelease))
        /\ \A i, j \in DOMAIN keylog :
               (/\ i < j /\ pc = "ok"
                /\ ~IsRelease(keylog[i]) /\ ~IsRelease(keylog[j])
                /\ Survives(keylog[i]) /\ Survives(keylog[j])
                /\ \A m \in (i + 1)..(j - 1) : IsRelease(keylog[m]))
               => place(j) = place(i) + 1

\* Two presses of one finger with two releases between them, one with row
\* "NA" and a layer the layout does not have, gave an SFB
C27_witness ==
    /\ pc = "ok"
    /\ Len(keylog) = 4
    /\ ~IsRelease(keylog[1]) /\ ~IsRelease(keylog[4])
    /\ IsRelease(keylog[2]) /\ IsRelease(keylog[3])
    /\ \E m \in {2, 3} : keylog[m].row = <<"N", "A">> /\ keylog[m].highest_layer = 2
    /\ keylog_stats.val.total_sfb_events = 1

AskedIsEntrySfb == query.some /\ query.val.fn = "is_entry_sfb"

\* C28: a.is_entry_sfb(b) equals b.is_entry_sfb(a) for every two events,
\* Single or Combo in any combination
C28_is_entry_sfb_symmetric ==
    AskedIsEntrySfb => query.val.ab = query.val.ba

\* A single key and a combo that holds another key of its finger are an SFB
\* in both orders
C28_witness ==
    /\ AskedIsEntrySfb
    /\ query.val.a.type = "Single" /\ query.val.b.type = "Combo"
    /\ query.val.ab /\ query.val.ba

\* C30: is_entry_sfb of keylog/mod.rs returns what is_entry_sfb of
\* keylog/stats.rs returns for every two events of one layout, two Combo
\* events included
C30_classifiers_agree ==
    AskedIsEntrySfb =>
        /\ query.val.mod_ab = query.val.ab
        /\ query.val.mod_ba = query.val.ba

\* The maps and the list of SFBs of the statistics are empty
NoSfbs ==
    /\ keylog_stats.val.total_sfb_events = 0
    /\ keylog_stats.val.sfbs = <<>>
    /\ DOMAIN keylog_stats.val.sfbs_by_id = {}
    /\ keylog_stats.val.sfbs_by_finger = <<>>

\* C29: a log that resolves to no event or to one event completes without
\* failing, with total_sfb_events = 0 and sfbs, sfbs_by_id and
\* sfbs_by_finger empty; for every log total_sfb_events is at most
\* max(0, total_events - 1)
C29_sfb_detection_total ==
    /\ (/\ pc # "start"
        /\ \A i \in DOMAIN keylog : ~Invalid(keylog[i])
        /\ place(Len(keylog)) <= 1)
       => pc = "ok" /\ Len(events) = place(Len(keylog)) /\ NoSfbs
    /\ pc = "ok" =>
          /\ keylog_stats.val.total_events = Len(events)
          /\ Len(events) <= 1 => NoSfbs
          /\ keylog_stats.val.total_sfb_events
                 <= IF keylog_stats.val.total_events = 0 THEN 0
                    ELSE keylog_stats.val.total_events - 1

\* A log of a release, a (254, 254) press and one press that resolves
\* completed with one event and no SFB
C29_witness ==
    /\ pc = "ok"
    /\ Len(keylog) = 3
    /\ Len(events) = 1
    /\ \E i \in DOMAIN keylog : IsRelease(keylog[i])
    /\ \E i \in DOMAIN keylog : Sentinel254(keylog[i])
    /\ NoSfbs

=============================================================================
